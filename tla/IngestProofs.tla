---------------------------- MODULE IngestProofs ----------------------------
(***************************************************************************)
(* Theorems about Ingest for any thread, any messages with files and any   *)
(* number of mishaps.                                                      *)
(***************************************************************************)
EXTENDS Ingest, SequenceTheorems, FiniteSetTheorems, TLAPS

HandlerStates == {"none", "heard", "unheard", "listing", "filling", "own", "done"}
Entry == [m : Msg, file : BOOLEAN]

IngestType ==
  /\ mention \subseteq Msg /\ posted \in Seq(Msg) /\ gone \subseteq Msg
  /\ pc \in [Msg -> HandlerStates] /\ fill \in [Msg -> Seq(Msg)] /\ cursor \in [Msg -> Nat]
  /\ ref \in [Msg -> {"none", "asked", "yes", "no"}]
  /\ del \in [Msg -> {"none", "heard", "unlink", "record", "done"}]
  /\ log \in Seq(Entry) /\ dir \subseteq {"thread", "attachments"} /\ att \subseteq Msg
  /\ done \subseteq Msg /\ box \subseteq Msg
  /\ push \in [f : Msg \cup {None}, kept : BOOLEAN] /\ (push.kept => push.f \in Msg)
  /\ wipe \subseteq {"data", "box"} /\ before \in [Msg -> SUBSET Msg]

In(x, s) == \E i \in 1 .. Len(s) : s[i] = x
Recorded(x) == \E n \in 1 .. Len(log) : log[n].m = x

LEMMA NextIndex == \A k \in Nat : \A n \in 1 .. k - 1 : n + 1 \in 1 .. k
OBVIOUS

LEMMA InRange ==
  ASSUME NEW S, NEW s \in Seq(S), NEW x
  PROVE  x \in Range(s) <=> In(x, s)
BY DEF Range, In

LEMMA LoggedRecorded ==
  ASSUME IngestType, NEW x
  PROVE  x \in Logged <=> Recorded(x)
BY DEF IngestType, Logged, Recorded

LEMMA TailFill ==
  ASSUME NEW S, NEW s \in Seq(S), s # <<>>
  PROVE  /\ Len(s) \in Nat /\ Len(s) > 0 /\ Head(s) = s[1] /\ Head(s) \in S
         /\ Tail(s) \in Seq(S) /\ Len(Tail(s)) = Len(s) - 1
         /\ \A i \in 1 .. Len(Tail(s)) : Tail(s)[i] = s[i + 1]
         /\ \A x : In(x, s) <=> x = Head(s) \/ In(x, Tail(s))
<1>1. /\ Len(s) \in Nat /\ Len(s) > 0 /\ Head(s) = s[1]
      /\ Tail(s) \in Seq(S) /\ Len(Tail(s)) = Len(s) - 1
      /\ \A i \in 1 .. Len(Tail(s)) : Tail(s)[i] = s[i + 1]
  BY EmptySeq, HeadTailProperties
<1>2. Head(s) \in S
  BY <1>1, ElementOfSeq
<1>3. ASSUME NEW x, In(x, s), x # Head(s) PROVE In(x, Tail(s))
  <2>1. PICK i \in 1 .. Len(s) : s[i] = x
    BY <1>3 DEF In
  <2>2. i # 1
    BY <1>1, <1>3, <2>1
  <2>3. i - 1 \in 1 .. Len(Tail(s)) /\ (i - 1) + 1 = i
    BY <1>1, <2>2
  <2>4. Tail(s)[i - 1] = x
    BY <1>1, <2>1, <2>3
  <2>5. QED
    BY <2>3, <2>4 DEF In
<1>4. ASSUME NEW x, In(x, Tail(s)) PROVE In(x, s)
  <2>1. PICK i \in 1 .. Len(Tail(s)) : Tail(s)[i] = x
    BY <1>4 DEF In
  <2>2. i + 1 \in 1 .. Len(s) /\ s[i + 1] = x
    BY <1>1, <2>1
  <2>3. QED
    BY <2>2 DEF In
<1>5. In(Head(s), s)
  <2>1. 1 \in 1 .. Len(s)
    BY <1>1
  <2>2. QED
    BY <1>1, <2>1 DEF In
<1>6. QED
  BY <1>1, <1>2, <1>3, <1>4, <1>5

LEMMA ItemFacts ==
  ASSUME IngestType, NEW m \in Msg
  PROVE  /\ Item(m) \in Msg
         /\ fill[m] # <<>> => In(Item(m), fill[m])
         /\ fill[m] = <<>> => Item(m) = m
BY TailFill DEF IngestType, Item

\* One page holds the messages of its indices, in their order and only once.
LEMMA PageFacts ==
  ASSUME IngestType, NEW m \in Msg, NEW page \in InOrder(Page(m))
  PROVE  /\ page \in Seq(Msg)
         /\ \A n \in 1 .. Len(page) : \E i \in Page(m) : page[n] = posted[i]
         /\ \A i \in Page(m) : In(posted[i], page)
         /\ (\A i, j \in 1 .. Len(posted) : posted[i] = posted[j] => i = j) =>
              \A n, l \in 1 .. Len(page) : page[n] = page[l] => n = l
<1> DEFINE I == Page(m)
           c == Cardinality(I)
<1>0. posted \in Seq(Msg) /\ Len(posted) \in Nat
  BY DEF IngestType
<1>1. I \subseteq 1 .. Len(posted)
  BY DEF Page
<1>2. c \in Nat
  <2>1. IsFiniteSet(1 .. Len(posted))
    BY <1>0, FS_Interval
  <2>2. IsFiniteSet(I)
    BY <1>1, <2>1, FS_Subset
  <2>3. QED
    BY <2>2, FS_CardinalityType
<1> HIDE DEF I, c
<1>3. PICK k \in [1 .. c -> I] :
        /\ Range(k) = I /\ \A n, l \in 1 .. c : n < l => k[n] < k[l]
        /\ page = [n \in 1 .. c |-> posted[k[n]]]
  BY DEF InOrder, I, c
<1>4. ASSUME NEW n \in 1 .. c
      PROVE  k[n] \in I /\ k[n] \in 1 .. Len(posted) /\ posted[k[n]] \in Msg
  <2>1. k[n] \in I /\ k[n] \in 1 .. Len(posted)
    BY <1>1
  <2>2. QED
    BY <1>0, <2>1
<1>p. page \in [1 .. c -> Msg]
  BY <1>3, <1>4
<1>5. page \in Seq(Msg) /\ Len(page) = c
  BY <1>2, <1>p
<1>6. \A n \in 1 .. c : page[n] = posted[k[n]]
  BY <1>3
<1>7. \A i \in I : \E n \in 1 .. c : k[n] = i
  BY <1>3 DEF Range
<1>8. ASSUME \A i, j \in 1 .. Len(posted) : posted[i] = posted[j] => i = j,
             NEW n \in 1 .. c, NEW l \in 1 .. c, page[n] = page[l]
      PROVE  n = l
  <2>1. k[n] = k[l] /\ k[n] \in Int
    BY <1>0, <1>4, <1>6, <1>8
  <2>2. ~(n < l) /\ ~(l < n)
    BY <1>3, <2>1
  <2>3. QED
    BY <1>2, <2>2
<1>9. QED
  BY <1>4, <1>5, <1>6, <1>7, <1>8 DEF In, I

-----------------------------------------------------------------------------
(* Types.                                                                  *)

LEMMA TypeInit == Init => IngestType
BY IngestAssumption DEF Init, IngestType, NoPush, HandlerStates, Entry

LEMMA PcType ==
  ASSUME IngestType
  PROVE  \A m \in Msg : \A l \in HandlerStates : [pc EXCEPT ![m] = l] \in [Msg -> HandlerStates]
BY DEF IngestType

LEMMA TypeStep ==
  ASSUME IngestType, [Next]_vars
  PROVE  IngestType'
<1> USE DEF IngestType, HandlerStates
<1>1. ASSUME NEW m \in Msg, Posts(m) PROVE IngestType'
  <2>1. posted' \in Seq(Msg)
    BY <1>1 DEF Posts
  <2>2. pc' \in [Msg -> HandlerStates]
    <3>1. \E l \in {"heard", "unheard"} : pc' = [pc EXCEPT ![m] = l]
      BY <1>1 DEF Posts
    <3>2. QED
      BY <3>1, PcType DEF HandlerStates
  <2>3. QED
    BY <1>1, <2>1, <2>2 DEF Posts, disk, mirror
<1>2. ASSUME NEW m \in Msg, Removes(m) PROVE IngestType'
  BY <1>2 DEF Removes, disk, mirror
<1>3. ASSUME NEW m \in Msg, Handle(m) PROVE IngestType'
  <2>1. Range(posted) \subseteq Msg
    BY DEF Range
  <2>2. before' \in [Msg -> SUBSET Msg]
    <3> DEFINE r == Range(posted)
    <3>1. r \in SUBSET Msg
      BY <2>1
    <3>2. before' = before \/ before' = [before EXCEPT ![m] = r]
      BY <1>3 DEF Handle
    <3> HIDE DEF r
    <3>3. QED
      BY <3>1, <3>2
  <2>3. pc' \in [Msg -> HandlerStates]
    <3>1. \E l \in {"listing", "own", "done"} : pc' = [pc EXCEPT ![m] = l]
      BY <1>3 DEF Handle
    <3>2. QED
      BY <3>1, PcType DEF HandlerStates
  <2>4. QED
    BY <1>3, <2>2, <2>3 DEF Handle, slackSide, disk, mirror
<1>4. ASSUME NEW m \in Msg, Lists(m) PROVE IngestType'
  <2>1. PICK page \in InOrder(Page(m)) : fill' = [fill EXCEPT ![m] = @ \o page]
    BY <1>4 DEF Lists
  <2>2. fill[m] \in Seq(Msg) /\ page \in Seq(Msg)
    BY PageFacts
  <2>3. fill[m] \o page \in Seq(Msg)
    BY <2>2, ConcatProperties
  <2>4. fill' \in [Msg -> Seq(Msg)]
    BY <2>1, <2>3
  <2>5. cursor' \in [Msg -> Nat]
    BY <1>4, IngestAssumption DEF Lists
  <2>6. pc' \in [Msg -> HandlerStates]
    BY <1>4 DEF Lists
  <2>7. QED
    BY <1>4, <2>4, <2>5, <2>6 DEF Lists, slackSide, disk, mirror
<1>5. ASSUME NEW m \in Msg, Fetch(m) PROVE IngestType'
  BY <1>5 DEF Fetch, slackSide, mirror
<1>6. ASSUME NEW m \in Msg, Save(m) PROVE IngestType'
  <2>1. Item(m) \in Msg
    BY ItemFacts
  <2>2. QED
    BY <1>6, <2>1 DEF Save, slackSide, mirror
<1>7. ASSUME NEW m \in Msg, Records(m) PROVE IngestType'
  <2>1. Item(m) \in Msg
    BY ItemFacts
  <2>2. [m |-> Item(m), file |-> ref[m] = "yes"] \in Entry
    BY <2>1 DEF Entry
  <2>3. log' \in Seq(Entry)
    BY <1>7, <2>2 DEF Records
  <2>4. fill[m] # <<>> => Tail(fill[m]) \in Seq(Msg)
    BY TailFill
  <2>5. fill' \in [Msg -> Seq(Msg)]
    BY <1>7, <2>4 DEF Records
  <2>6. pc' \in [Msg -> HandlerStates] /\ ref' \in [Msg -> {"none", "asked", "yes", "no"}]
    BY <1>7 DEF Records
  <2>7. QED
    BY <1>7, <2>3, <2>5, <2>6 DEF Records, slackSide, mirror
<1>8. ASSUME NEW m \in Msg, Filled(m) PROVE IngestType'
  BY <1>8 DEF Filled, slackSide, disk, mirror
<1>20. ASSUME NEW m \in Msg, Throws(m) PROVE IngestType'
  <2>1. <<>> \in Seq(Msg)
    OBVIOUS
  <2>2. QED
    BY <1>20, <2>1 DEF Throws, slackSide, disk, mirror
<1>9. ASSUME NEW m \in Msg, DeleteReads(m) \/ DeleteUnlinks(m) \/ DeleteRecords(m)
      PROVE  IngestType'
  BY <1>9 DEF DeleteReads, DeleteUnlinks, DeleteRecords, slackSide, disk, mirror
<1>10. ASSUME NEW m \in Msg, PushStarts(m) PROVE IngestType'
  BY <1>10 DEF PushStarts, slackSide, handlers, disk
<1>11. CASE EditArrives
  BY <1>11 DEF EditArrives, slackSide, handlers, mirror
<1>12. CASE PushEnds
  <2>2. done' \subseteq Msg
    BY <1>12 DEF PushEnds
  <2>3. push' \in [f : Msg \cup {None}, kept : BOOLEAN] /\ ~push'.kept
    BY <1>12 DEF PushEnds, NoPush
  <2>4. QED
    BY <1>12, <2>2, <2>3 DEF PushEnds, slackSide, handlers, disk
<1>13. CASE Wipe
  BY <1>13 DEF Wipe, slackSide, handlers, disk
<1>14. CASE WipeData
  BY <1>14 DEF WipeData, slackSide, handlers, mirror
<1>15. CASE WipeBox
  BY <1>15 DEF WipeBox, slackSide, handlers, disk
<1>16. CASE SandboxMoves
  BY <1>16 DEF SandboxMoves, slackSide, handlers, disk
<1>17. CASE Crash
  BY <1>17, IngestAssumption DEF Crash, slackSide, disk, NoPush
<1>18. CASE UNCHANGED vars
  BY <1>18 DEF vars, slackSide, handlers, disk, mirror
<1>19. QED
  BY <1>1, <1>2, <1>3, <1>4, <1>5, <1>6, <1>7, <1>8, <1>9, <1>10, <1>11, <1>12, <1>13, <1>14,
     <1>15, <1>16, <1>17, <1>18, <1>20 DEF Next

-----------------------------------------------------------------------------
(* The thread and its handlers.                                            *)

\* The thread has every message once, and nothing is deleted before it is posted.
PostedInv ==
  /\ \A i, j \in 1 .. Len(posted) : posted[i] = posted[j] => i = j
  /\ \A x \in Msg : pc[x] = "none" <=> ~In(x, posted)
  /\ \A x \in gone : pc[x] # "none"

\* What a backfill has listed is from its pages; a handler has a file in hand only
\* while it saves.
HandlerOk(x) ==
  /\ del[x] # "none" => x \in gone
  /\ fill[x] # <<>> => pc[x] \in {"listing", "filling"}
  /\ pc[x] \notin {"listing", "filling"} => cursor[x] = 0
  /\ ref[x] # "none" => Saving(x)
  /\ \A n \in 1 .. Len(fill[x]) : \E i \in 1 .. Len(posted) :
       posted[i] = fill[x][n] /\ (pc[x] = "listing" => i <= cursor[x])

HandlerInv == \A x \in Msg : HandlerOk(x)

\* Only what was posted is recorded, and not without a directory.
LogInv ==
  /\ \A n \in 1 .. Len(log) : pc[log[n].m] # "none"
  /\ dir = {} => log = <<>>

ThreadInv == PostedInv /\ HandlerInv /\ LogInv

LEMMA EmptyFacts == Len(<<>>) = 0 /\ \A x : ~In(x, <<>>)
<1>1. Len(<<>>) = 0
  OBVIOUS
<1>2. QED
  BY <1>1 DEF In

LEMMA AppendFacts ==
  ASSUME NEW S, NEW s \in Seq(S), NEW x \in S
  PROVE  /\ Append(s, x) \in Seq(S) /\ Len(Append(s, x)) = Len(s) + 1 /\ Len(s) \in Nat
         /\ \A i \in 1 .. Len(s) : i \in 1 .. Len(Append(s, x)) /\ Append(s, x)[i] = s[i]
         /\ Append(s, x)[Len(s) + 1] = x
         /\ \A y : In(y, Append(s, x)) <=> y = x \/ In(y, s)
<1>1. /\ Append(s, x) \in Seq(S) /\ Len(Append(s, x)) = Len(s) + 1 /\ Len(s) \in Nat
      /\ \A i \in 1 .. Len(s) : i \in 1 .. Len(Append(s, x)) /\ Append(s, x)[i] = s[i]
      /\ Append(s, x)[Len(s) + 1] = x
  OBVIOUS
<1> DEFINE t == Append(s, x)
<1> HIDE DEF t
<1>2. Len(t) = Len(s) + 1 /\ t[Len(s) + 1] = x /\ \A i \in 1 .. Len(s) : t[i] = s[i]
  BY <1>1 DEF t
<1>3. ASSUME NEW y PROVE In(y, t) <=> y = x \/ In(y, s)
  <2>1. \A i \in 1 .. Len(t) : i \in 1 .. Len(s) \/ i = Len(s) + 1
    BY <1>1, <1>2
  <2>2. Len(s) + 1 \in 1 .. Len(t) /\ \A i \in 1 .. Len(s) : i \in 1 .. Len(t)
    BY <1>1, <1>2
  <2>3. QED
    BY <1>2, <2>1, <2>2 DEF In
<1>4. QED
  BY <1>1, <1>3 DEF t

LEMMA PostedStep ==
  ASSUME IngestType, PostedInv, [Next]_vars
  PROVE  PostedInv'
<1>1. ASSUME NEW m \in Msg, Posts(m) PROVE PostedInv'
  <2> DEFINE s == posted
             t == Append(posted, m)
  <2>1. /\ t \in Seq(Msg) /\ Len(t) = Len(s) + 1 /\ Len(s) \in Nat
        /\ \A i \in 1 .. Len(s) : i \in 1 .. Len(t) /\ t[i] = s[i]
        /\ t[Len(s) + 1] = m
        /\ \A y : In(y, t) <=> y = m \/ In(y, s)
    BY AppendFacts DEF IngestType
  <2>2. posted' = t /\ pc[m] = "none" /\ gone' = gone
    BY <1>1 DEF Posts
  <2>3. pc' = [pc EXCEPT ![m] = "heard"] \/ pc' = [pc EXCEPT ![m] = "unheard"]
    BY <1>1 DEF Posts
  <2>4. ~In(m, s)
    BY <2>2 DEF PostedInv
  <2> HIDE DEF t
  <2>5. \A x \in Msg : pc'[x] = "none" <=> pc[x] = "none" /\ x # m
    BY <2>3 DEF IngestType
  <2>6. ASSUME NEW i \in 1 .. Len(t), NEW j \in 1 .. Len(t), t[i] = t[j] PROVE i = j
    <3>1. \A k \in 1 .. Len(t) : k \in 1 .. Len(s) \/ k = Len(s) + 1
      BY <2>1
    <3>2. \A k \in 1 .. Len(s) : s[k] # m
      BY <2>4 DEF In
    <3>3. QED
      BY <2>1, <2>6, <3>1, <3>2 DEF PostedInv
  <2>7. \A x \in Msg : pc'[x] = "none" <=> ~In(x, t)
    BY <2>1, <2>5 DEF PostedInv
  <2>8. \A x \in gone : pc'[x] # "none"
    BY <2>5 DEF PostedInv, IngestType
  <2>9. \A x : In(x, posted)' <=> In(x, t)
    BY <2>2 DEF In
  <2>10. QED
    BY <2>2, <2>6, <2>7, <2>8, <2>9 DEF PostedInv
<1>2. ASSUME NEW m \in Msg, Removes(m) PROVE PostedInv'
  <2>1. In(m, posted)
    BY <1>2, InRange DEF Removes, IngestType
  <2>2. UNCHANGED <<posted, pc>> /\ gone' = gone \cup {m}
    BY <1>2 DEF Removes
  <2>3. \A x : In(x, posted)' <=> In(x, posted)
    BY <2>2 DEF In
  <2>4. QED
    BY <2>1, <2>2, <2>3 DEF PostedInv
<1>3. ASSUME UNCHANGED <<posted, gone>>, \A x \in Msg : pc'[x] = "none" <=> pc[x] = "none"
      PROVE  PostedInv'
  <2>1. \A x : In(x, posted)' <=> In(x, posted)
    BY <1>3 DEF In
  <2>2. QED
    BY <1>3, <2>1 DEF PostedInv, IngestType
<1>4. ASSUME NEW m \in Msg, Handle(m) \/ Lists(m) \/ Records(m) \/ Filled(m) \/ Throws(m)
      PROVE  UNCHANGED <<posted, gone>> /\ \A x \in Msg : pc'[x] = "none" <=> pc[x] = "none"
  <2>1. UNCHANGED <<posted, gone>> /\ pc[m] # "none"
    BY <1>4 DEF Handle, Lists, Records, Filled, Throws, slackSide, Saving, Busy
  <2>2. pc' = pc \/ \E v \in HandlerStates \ {"none"} : pc' = [pc EXCEPT ![m] = v]
    BY <1>4 DEF Handle, Lists, Records, Filled, Throws, HandlerStates
  <2>3. QED
    BY <2>1, <2>2 DEF IngestType
<1>5. ASSUME Crash
      PROVE  UNCHANGED <<posted, gone>> /\ \A x \in Msg : pc'[x] = "none" <=> pc[x] = "none"
  BY <1>5 DEF Crash, slackSide, Busy, IngestType
<1>6. ASSUME NEW m \in Msg, \/ Fetch(m) \/ Save(m) \/ DeleteReads(m) \/ DeleteUnlinks(m)
                            \/ DeleteRecords(m) \/ PushStarts(m)
      PROVE  UNCHANGED <<posted, gone, pc>>
  BY <1>6 DEF Fetch, Save, DeleteReads, DeleteUnlinks, DeleteRecords, PushStarts, slackSide, handlers
<1>7. ASSUME EditArrives \/ PushEnds \/ Wipe \/ WipeData \/ WipeBox \/ SandboxMoves \/ UNCHANGED vars
      PROVE  UNCHANGED <<posted, gone, pc>>
  BY <1>7 DEF EditArrives, PushEnds, Wipe, WipeData, WipeBox, SandboxMoves, vars, slackSide, handlers
<1>8. QED
  BY <1>1, <1>2, <1>3, <1>4, <1>5, <1>6, <1>7 DEF Next

\* What one page adds to what a backfill has listed.
LEMMA ListsFacts ==
  ASSUME IngestType, NEW m \in Msg, Lists(m)
  PROVE  \E page \in Seq(Msg) :
           /\ fill' = [fill EXCEPT ![m] = @ \o page]
           /\ \A n \in 1 .. Len(page) : \E i \in Page(m) : page[n] = posted[i]
           /\ \A i \in Page(m) : In(posted[i], page)
           /\ (\A i, j \in 1 .. Len(posted) : posted[i] = posted[j] => i = j) =>
                \A n, l \in 1 .. Len(page) : page[n] = page[l] => n = l
<1>1. PICK page \in InOrder(Page(m)) : fill' = [fill EXCEPT ![m] = @ \o page]
  BY DEF Lists
<1>2. /\ page \in Seq(Msg)
      /\ \A n \in 1 .. Len(page) : \E i \in Page(m) : page[n] = posted[i]
      /\ \A i \in Page(m) : In(posted[i], page)
      /\ (\A i, j \in 1 .. Len(posted) : posted[i] = posted[j] => i = j) =>
           \A n, l \in 1 .. Len(page) : page[n] = page[l] => n = l
  BY PageFacts
<1>3. QED
  BY <1>1, <1>2

\* Where the messages of two joined lists come from.
LEMMA ConcatFacts ==
  ASSUME NEW S, NEW s \in Seq(S), NEW t \in Seq(S)
  PROVE  /\ s \o t \in Seq(S) /\ Len(s \o t) = Len(s) + Len(t) /\ Len(s) \in Nat /\ Len(t) \in Nat
         /\ \A n \in 1 .. Len(s \o t) :
              \/ n \in 1 .. Len(s) /\ (s \o t)[n] = s[n]
              \/ n - Len(s) \in 1 .. Len(t) /\ (s \o t)[n] = t[n - Len(s)]
         /\ \A x : In(x, s \o t) <=> In(x, s) \/ In(x, t)
<1>1. /\ s \o t \in Seq(S) /\ Len(s \o t) = Len(s) + Len(t) /\ Len(s) \in Nat /\ Len(t) \in Nat
      /\ \A n \in 1 .. Len(s \o t) :
           \/ n \in 1 .. Len(s) /\ (s \o t)[n] = s[n]
           \/ n - Len(s) \in 1 .. Len(t) /\ (s \o t)[n] = t[n - Len(s)]
  BY ConcatProperties
<1>2. ASSUME NEW x, In(x, s \o t) PROVE In(x, s) \/ In(x, t)
  BY <1>1, <1>2 DEF In
<1>3. ASSUME NEW x, In(x, s) PROVE In(x, s \o t)
  <2>1. PICK i \in 1 .. Len(s) : s[i] = x
    BY <1>3 DEF In
  <2>2. i \in 1 .. Len(s \o t) /\ (s \o t)[i] = s[i]
    BY <1>1, ConcatProperties
  <2>3. QED
    BY <2>1, <2>2 DEF In
<1>4. ASSUME NEW x, In(x, t) PROVE In(x, s \o t)
  <2>1. PICK i \in 1 .. Len(t) : t[i] = x
    BY <1>4 DEF In
  <2>2. i + Len(s) \in 1 .. Len(s \o t) /\ (s \o t)[i + Len(s)] = t[i]
    BY <1>1, ConcatProperties
  <2>3. QED
    BY <2>1, <2>2 DEF In
<1>5. QED
  BY <1>1, <1>2, <1>3, <1>4

\* A handler keeps its place when another one moves.
LEMMA HandlerFrame ==
  ASSUME NEW x, HandlerOk(x), gone \subseteq gone',
         \A i \in 1 .. Len(posted) : i \in 1 .. Len(posted)' /\ posted'[i] = posted[i],
         pc'[x] = pc[x], fill'[x] = fill[x], cursor'[x] = cursor[x], ref'[x] = ref[x],
         del'[x] = del[x]
  PROVE  HandlerOk(x)'
<1>1. Saving(x)' <=> Saving(x)
  BY DEF Saving
<1>2. \A n \in 1 .. Len(fill'[x]) : \E i \in 1 .. Len(posted') :
        posted'[i] = fill'[x][n] /\ (pc'[x] = "listing" => i <= cursor'[x])
  BY DEF HandlerOk
<1>3. QED
  BY <1>1, <1>2 DEF HandlerOk

LEMMA HandlerStep ==
  ASSUME IngestType, IngestType', PostedInv, HandlerInv, [Next]_vars
  PROVE  HandlerInv'
<1> SUFFICES ASSUME NEW x \in Msg PROVE HandlerOk(x)'
  BY DEF HandlerInv
<1>p. ASSUME Lists(x)
      PROVE  \E page \in Seq(Msg) :
               /\ fill' = [fill EXCEPT ![x] = @ \o page]
               /\ \A n \in 1 .. Len(page) : \E i \in Page(x) : page[n] = posted[i]
  BY <1>p, ListsFacts
<1> USE DEF IngestType
<1>0. HandlerOk(x)
  BY DEF HandlerInv
<1>1. CASE \E m \in Msg : Posts(m)
  <2>1. PICK m \in Msg : Posts(m)
    BY <1>1
  <2>2. \A i \in 1 .. Len(posted) : i \in 1 .. Len(posted)' /\ posted'[i] = posted[i]
    BY <2>1, AppendFacts DEF Posts
  <2>3. UNCHANGED <<fill, cursor, ref, del, gone>>
    BY <2>1 DEF Posts
  <2>4. CASE x # m
    <3>1. pc'[x] = pc[x]
      BY <2>1, <2>4 DEF Posts
    <3>2. QED
      BY <1>0, <2>2, <2>3, <3>1, HandlerFrame
  <2>5. CASE x = m
    <3>1. pc[x] = "none" /\ pc'[x] \in {"heard", "unheard"}
      BY <2>1, <2>5 DEF Posts
    <3>2. fill[x] = <<>> /\ ref[x] = "none" /\ cursor[x] = 0
      BY <1>0, <3>1 DEF HandlerOk, Saving
    <3>3. \A n \in 1 .. Len(fill'[x]) : FALSE
      BY <2>3, <3>2, EmptyFacts
    <3>4. QED
      BY <1>0, <2>3, <3>1, <3>2, <3>3 DEF HandlerOk
  <2>6. QED
    BY <2>4, <2>5
<1>2. CASE \E m \in Msg : Removes(m)
  <2>1. PICK m \in Msg : Removes(m)
    BY <1>2
  <2>2. UNCHANGED <<posted, pc, fill, cursor, ref>> /\ gone' = gone \cup {m}
    BY <2>1 DEF Removes
  <2>3. del'[x] # "none" => x \in gone'
    BY <1>0, <2>1 DEF Removes, HandlerOk
  <2>4. Saving(x)' <=> Saving(x)
    BY <2>2 DEF Saving
  <2>5. QED
    BY <1>0, <2>2, <2>3, <2>4 DEF HandlerOk
<1>3. CASE UNCHANGED <<posted, gone, pc, fill, cursor, ref, del>>
  BY <1>0, <1>3, HandlerFrame
<1>4. ASSUME NEW m \in Msg, \/ Handle(m) \/ Lists(m) \/ Fetch(m) \/ Save(m) \/ Records(m)
                            \/ Filled(m) \/ Throws(m) \/ DeleteReads(m) \/ DeleteUnlinks(m) \/ DeleteRecords(m),
             x # m
      PROVE  HandlerOk(x)'
  <2>1. UNCHANGED <<posted, gone>>
    BY <1>4 DEF Handle, Lists, Fetch, Save, Records, Filled, Throws, DeleteReads, DeleteUnlinks,
                DeleteRecords, slackSide
  <2>2. pc'[x] = pc[x]
    <3>1. pc' = pc \/ \E v : pc' = [pc EXCEPT ![m] = v]
      BY <1>4 DEF Handle, Lists, Fetch, Save, Records, Filled, Throws, DeleteReads, DeleteUnlinks,
                  DeleteRecords
    <3>2. QED
      BY <1>4, <3>1
  <2>5. fill' = fill \/ \E v : fill' = [fill EXCEPT ![m] = v]
    BY <1>4 DEF Handle, Lists, Fetch, Save, Records, Filled, Throws, DeleteReads, DeleteUnlinks,
                DeleteRecords
  <2>6. fill'[x] = fill[x]
    BY <1>4, <2>5
  <2>7. cursor'[x] = cursor[x]
    BY <1>4 DEF Handle, Lists, Fetch, Save, Records, Filled, Throws, DeleteReads, DeleteUnlinks,
                DeleteRecords
  <2>3. ref'[x] = ref[x] /\ del'[x] = del[x]
    BY <1>4 DEF Handle, Lists, Fetch, Save, Records, Filled, Throws, DeleteReads, DeleteUnlinks,
                DeleteRecords
  <2>4. QED
    BY <1>0, <2>1, <2>2, <2>3, <2>6, <2>7, HandlerFrame
<1>5. CASE Handle(x)
  <2>1. UNCHANGED <<posted, gone, fill, cursor, ref, del>> /\ pc[x] = "heard"
    BY <1>5 DEF Handle, slackSide
  <2>2. fill[x] = <<>> /\ ref[x] = "none" /\ cursor[x] = 0
    BY <1>0, <2>1 DEF HandlerOk, Saving
  <2>3. \A n \in 1 .. Len(fill'[x]) : FALSE
    BY <2>1, <2>2, EmptyFacts
  <2>4. QED
    BY <1>0, <2>1, <2>2, <2>3 DEF HandlerOk
<1>6. CASE Lists(x)
  <2>1. PICK page \in Seq(Msg) :
          /\ fill' = [fill EXCEPT ![x] = @ \o page]
          /\ \A n \in 1 .. Len(page) : \E i \in Page(x) : page[n] = posted[i]
    BY <1>6, <1>p
  <2>2. /\ UNCHANGED <<posted, gone, ref, del>> /\ pc[x] = "listing"
        /\ pc'[x] \in {"listing", "filling"} /\ cursor'[x] = cursor[x] + PageSize
    BY <1>6, IngestAssumption DEF Lists, slackSide
  <2>3. ref[x] = "none"
    BY <1>0, <2>2 DEF HandlerOk, Saving
  <2> DEFINE old == fill[x]
  <2>4. old \in Seq(Msg)
    OBVIOUS
  <2>p. page \in Seq(Msg)
    OBVIOUS
  <2> HIDE DEF old
  <2>5. fill'[x] = old \o page
    BY <2>1 DEF old
  <2>6. /\ Len(old \o page) = Len(old) + Len(page) /\ Len(old) \in Nat /\ Len(page) \in Nat
        /\ \A n \in 1 .. Len(old \o page) :
             \/ n \in 1 .. Len(old) /\ (old \o page)[n] = old[n]
             \/ n - Len(old) \in 1 .. Len(page) /\ (old \o page)[n] = page[n - Len(old)]
    BY ONLY <2>4, <2>p, ConcatFacts
  <2>7. ASSUME NEW n \in 1 .. Len(fill'[x])
        PROVE  \E i \in 1 .. Len(posted) : posted[i] = fill'[x][n] /\ i <= cursor'[x]
    <3>1. CASE n \in 1 .. Len(old) /\ fill'[x][n] = old[n]
      <4>1. PICK i \in 1 .. Len(posted) : posted[i] = old[n] /\ i <= cursor[x]
        BY <1>0, <2>2, <3>1 DEF HandlerOk, old
      <4>2. i <= cursor[x] + PageSize
        BY <4>1, IngestAssumption
      <4>3. QED
        BY <2>2, <3>1, <4>1, <4>2
    <3>2. CASE n - Len(old) \in 1 .. Len(page) /\ fill'[x][n] = page[n - Len(old)]
      <4>1. PICK i \in Page(x) : page[n - Len(old)] = posted[i]
        BY <2>1, <3>2
      <4>2. i \in 1 .. Len(posted) /\ i <= cursor[x] + PageSize
        BY DEF Page
      <4>3. posted[i] = fill'[x][n]
        BY <3>2, <4>1
      <4>4. i <= cursor'[x]
        BY <2>2, <4>2
      <4>5. QED
        BY <4>2, <4>3, <4>4
    <3>3. QED
      BY <2>5, <2>6, <3>1, <3>2
  <2>8. QED
    BY <1>0, <2>2, <2>3, <2>7 DEF HandlerOk
<1>7. CASE Fetch(x) \/ Save(x)
  <2>1. UNCHANGED <<posted, gone, pc, fill, cursor, del>>
    BY <1>7 DEF Fetch, Save, slackSide
  <2>2. Saving(x)
    BY <1>0, <1>7 DEF Fetch, Save, HandlerOk
  <2>3. Saving(x)'
    BY <2>1, <2>2 DEF Saving
  <2>4. QED
    BY <1>0, <2>1, <2>3 DEF HandlerOk
<1>8. CASE Records(x)
  <2>1. UNCHANGED <<posted, gone, cursor, del>> /\ ref'[x] = "none" /\ Saving(x)
    BY <1>8 DEF Records, slackSide
  <2>2. CASE fill[x] # <<>>
    <3>1. fill'[x] = Tail(fill[x]) /\ pc'[x] = pc[x] /\ pc[x] = "filling"
      BY <1>0, <1>8, <2>1, <2>2 DEF Records, HandlerOk, Saving
    <3>2. ASSUME NEW n \in 1 .. Len(Tail(fill[x]))
          PROVE  \E i \in 1 .. Len(posted) : posted[i] = Tail(fill[x])[n]
      <4>1. /\ Len(fill[x]) \in Nat /\ Len(Tail(fill[x])) = Len(fill[x]) - 1
            /\ Tail(fill[x])[n] = fill[x][n + 1]
        BY <2>2, TailFill
      <4>2. n + 1 \in 1 .. Len(fill[x])
        BY <4>1, NextIndex
      <4>3. PICK i \in 1 .. Len(posted) : posted[i] = fill[x][n + 1]
        BY <1>0, <4>2 DEF HandlerOk
      <4>4. QED
        BY <4>1, <4>3
    <3>3. QED
      BY <1>0, <2>1, <3>1, <3>2 DEF HandlerOk
  <2>3. CASE fill[x] = <<>>
    <3>1. fill'[x] = <<>> /\ pc'[x] = "done" /\ pc[x] = "own"
      BY <1>8, <2>1, <2>3 DEF Records, Saving
    <3>2. \A n \in 1 .. Len(fill'[x]) : FALSE
      BY <3>1, EmptyFacts
    <3>3. QED
      BY <1>0, <2>1, <3>1, <3>2 DEF HandlerOk
  <2>4. QED
    BY <2>2, <2>3
<1>9. CASE Filled(x)
  <2>1. /\ UNCHANGED <<posted, gone, fill, ref, del>> /\ fill[x] = <<>> /\ pc[x] = "filling"
        /\ pc'[x] = "own" /\ cursor'[x] = 0
    BY <1>9 DEF Filled, slackSide
  <2>2. ref[x] = "none"
    BY <1>0, <2>1 DEF HandlerOk, Saving
  <2>3. \A n \in 1 .. Len(fill'[x]) : FALSE
    BY <2>1, EmptyFacts
  <2>4. QED
    BY <1>0, <2>1, <2>2, <2>3 DEF HandlerOk
<1>15. CASE Throws(x)
  <2>1. /\ UNCHANGED <<posted, gone, del>> /\ fill'[x] = <<>> /\ cursor'[x] = 0
        /\ ref'[x] = "none" /\ pc'[x] = "unheard"
    BY <1>15 DEF Throws, slackSide
  <2>2. \A n \in 1 .. Len(fill'[x]) : FALSE
    BY <2>1, EmptyFacts
  <2>3. QED
    BY <1>0, <2>1, <2>2 DEF HandlerOk
<1>10. CASE DeleteReads(x) \/ DeleteUnlinks(x) \/ DeleteRecords(x)
  <2>1. UNCHANGED <<posted, gone, pc, fill, cursor, ref>> /\ del[x] # "none"
    BY <1>10 DEF DeleteReads, DeleteUnlinks, DeleteRecords, slackSide
  <2>2. Saving(x)' <=> Saving(x)
    BY <2>1 DEF Saving
  <2>3. QED
    BY <1>0, <2>1, <2>2 DEF HandlerOk
<1>11. CASE Crash
  <2>1. UNCHANGED <<posted, gone>> /\ fill'[x] = <<>> /\ cursor'[x] = 0 /\ ref'[x] = "none"
    BY <1>11 DEF Crash, slackSide
  <2>2. del'[x] # "none" => del[x] # "none"
    BY <1>11 DEF Crash
  <2>3. \A n \in 1 .. Len(fill'[x]) : FALSE
    BY <2>1, EmptyFacts
  <2>4. QED
    BY <1>0, <2>1, <2>2, <2>3 DEF HandlerOk
<1>12. ASSUME NEW m \in Msg, PushStarts(m)
       PROVE  UNCHANGED <<posted, gone, pc, fill, cursor, ref, del>>
  BY <1>12 DEF PushStarts, slackSide, handlers
<1>13. ASSUME EditArrives \/ PushEnds \/ Wipe \/ WipeData \/ WipeBox \/ SandboxMoves \/ UNCHANGED vars
       PROVE  UNCHANGED <<posted, gone, pc, fill, cursor, ref, del>>
  BY <1>13 DEF EditArrives, PushEnds, Wipe, WipeData, WipeBox, SandboxMoves, vars, slackSide,
               handlers
<1>14. QED
  BY <1>1, <1>2, <1>3, <1>4, <1>5, <1>6, <1>7, <1>8, <1>9, <1>10, <1>11, <1>12, <1>13,
     <1>15 DEF Next

\* The message in hand is one of the thread.
LEMMA ItemPosted ==
  ASSUME IngestType, PostedInv, HandlerInv, NEW m \in Msg, Saving(m)
  PROVE  Item(m) \in Msg /\ pc[Item(m)] # "none"
<1>1. Item(m) \in Msg
  BY ItemFacts
<1>2. CASE fill[m] = <<>>
  BY <1>2, ItemFacts DEF Saving
<1>3. CASE fill[m] # <<>>
  <2>1. PICK n \in 1 .. Len(fill[m]) : fill[m][n] = Item(m)
    BY <1>3, ItemFacts DEF In
  <2>2. In(Item(m), posted)
    BY <2>1 DEF HandlerInv, HandlerOk, In
  <2>3. QED
    BY <1>1, <2>2 DEF PostedInv
<1>4. QED
  BY <1>1, <1>2, <1>3

LEMMA LogStep ==
  ASSUME IngestType, PostedInv, PostedInv', HandlerInv, LogInv, [Next]_vars
  PROVE  LogInv'
<1> USE DEF IngestType
<1>e. \A n \in 1 .. Len(log) : log[n] \in Entry
  OBVIOUS
<1>0. \A n \in 1 .. Len(log) : log[n].m \in Msg
  BY <1>e DEF Entry
<1>1. ASSUME NEW m \in Msg, Records(m) PROVE LogInv'
  <2> DEFINE e == [m |-> Item(m), file |-> ref[m] = "yes"]
             t == Append(log, e)
  <2>1. Item(m) \in Msg /\ pc[Item(m)] # "none"
    BY <1>1, ItemPosted DEF Records
  <2>2. e \in Entry /\ e.m = Item(m)
    BY <2>1 DEF Entry
  <2>3. /\ log' = t /\ dir' # {}
    BY <1>1 DEF Records
  <2> HIDE DEF e
  <2>4. /\ Len(t) = Len(log) + 1 /\ Len(log) \in Nat
        /\ \A i \in 1 .. Len(log) : t[i] = log[i]
        /\ t[Len(log) + 1] = e
    BY <2>2, AppendFacts
  <2> HIDE DEF t
  <2>5. pc' = pc \/ pc' = [pc EXCEPT ![m] = "done"]
    BY <1>1 DEF Records
  <2>6. \A n \in 1 .. Len(t) : n \in 1 .. Len(log) \/ n = Len(log) + 1
    BY <2>4
  <2>7. \A n \in 1 .. Len(t) : t[n].m \in Msg /\ pc[t[n].m] # "none"
    BY <1>0, <2>1, <2>2, <2>4, <2>6 DEF LogInv
  <2>8. QED
    BY <2>3, <2>5, <2>7 DEF LogInv
<1>2. ASSUME \A y \in Msg : pc[y] # "none" => pc'[y] # "none",
             log' = log \/ log' = <<>>, dir' = {} => log' = <<>>
      PROVE  LogInv'
  <2>1. CASE log' = <<>>
    BY <1>2, <2>1, EmptyFacts DEF LogInv
  <2>2. CASE log' = log
    BY <1>0, <1>2, <2>2 DEF LogInv
  <2>3. QED
    BY <1>2, <2>1, <2>2
<1>3. ASSUME NEW m \in Msg, Posts(m) \/ Handle(m) \/ Lists(m) \/ Filled(m) \/ Throws(m)
      PROVE  LogInv'
  <2>1. UNCHANGED <<log, dir>>
    BY <1>3 DEF Posts, Handle, Lists, Filled, Throws, disk
  <2>2. \E v \in HandlerStates \ {"none"} : pc' = [pc EXCEPT ![m] = v]
    BY <1>3 DEF Posts, Handle, Lists, Filled, Throws, HandlerStates
  <2>3. QED
    BY <1>2, <2>1, <2>2 DEF LogInv
<1>4. ASSUME NEW m \in Msg, \/ Removes(m) \/ Save(m) \/ DeleteReads(m) \/ DeleteUnlinks(m)
                            \/ PushStarts(m)
      PROVE  LogInv'
  <2>1. UNCHANGED <<pc, log, dir>>
    BY <1>4 DEF Removes, Save, DeleteReads, DeleteUnlinks, PushStarts, disk, handlers
  <2>2. QED
    BY <1>2, <2>1 DEF LogInv
<1>5. ASSUME NEW m \in Msg, Fetch(m) \/ DeleteRecords(m)
      PROVE  LogInv'
  <2>1. UNCHANGED <<pc, log>> /\ dir' # {}
    BY <1>5 DEF Fetch, DeleteRecords
  <2>2. QED
    BY <1>2, <2>1
<1>6. CASE EditArrives
  <2>1. UNCHANGED <<pc, log>> /\ dir' # {}
    BY <1>6 DEF EditArrives, handlers
  <2>2. QED
    BY <1>2, <2>1
<1>7. CASE WipeData
  <2>1. UNCHANGED pc /\ log' = <<>>
    BY <1>7 DEF WipeData, handlers
  <2>2. QED
    BY <1>2, <2>1
<1>8. CASE PushEnds \/ Wipe \/ WipeBox \/ SandboxMoves \/ UNCHANGED vars
  <2>1. UNCHANGED <<pc, log, dir>>
    BY <1>8 DEF PushEnds, Wipe, WipeBox, SandboxMoves, vars, disk, handlers
  <2>2. QED
    BY <1>2, <2>1 DEF LogInv
<1>9. CASE Crash
  <2>1. UNCHANGED <<log, dir>> /\ \A y \in Msg : pc[y] # "none" => pc'[y] # "none"
    BY <1>9 DEF Crash, disk
  <2>2. QED
    BY <1>2, <2>1 DEF LogInv
<1>10. QED
  BY <1>1, <1>3, <1>4, <1>5, <1>6, <1>7, <1>8, <1>9 DEF Next

-----------------------------------------------------------------------------
(* Every message is recorded once.                                         *)

Backfilling(m) == pc[m] \in {"listing", "filling"}
Distinct(s) == \A i, j \in 1 .. Len(s) : s[i] = s[j] => i = j

\* While a backfill lists, nothing is recorded and nobody else is at work.
AloneInv ==
  \A m \in Msg : pc[m] = "listing" => log = <<>> /\ \A k \in Msg : Busy(k) => k = m
OneBackfill == \A m, k \in Msg : Backfilling(m) /\ Backfilling(k) => m = k
\* The message of a handler at work is neither recorded nor in a backfill.
OwnInv == \A k \in Msg : Busy(k) => ~Recorded(k) /\ \A m \in Msg : ~In(k, fill[m])
FillOnce == \A m \in Msg : Distinct(fill[m]) /\ \A x : In(x, fill[m]) => ~Recorded(x)
LogOnce == \A i, j \in 1 .. Len(log) : log[i].m = log[j].m => i = j

OnceInv ==
  "raced" \notin marred => AloneInv /\ OneBackfill /\ OwnInv /\ FillOnce /\ LogOnce

LEMMA LogIsOnce ==
  ASSUME IngestType, OnceInv
  PROVE  RecordedOnce
<1>1. DOMAIN log = 1 .. Len(log)
  BY DEF IngestType
<1>2. "raced" \notin marred => LogOnce
  BY DEF OnceInv
<1>3. QED
  BY <1>1, <1>2 DEF LogOnce, RecordedOnce

\* Nobody else backfills: no other list holds anything.
LEMMA OtherFillEmpty ==
  ASSUME IngestType, HandlerInv, OneBackfill, NEW m \in Msg, Backfilling(m)
  PROVE  \A k \in Msg : k # m => fill[k] = <<>>
BY DEF HandlerInv, HandlerOk, OneBackfill, Backfilling

LEMMA OnceFrame ==
  ASSUME IngestType, OnceInv, "raced" \notin marred' => "raced" \notin marred,
         UNCHANGED <<fill, log>>,
         \A x \in Msg : pc'[x] = pc[x] \/ (pc'[x] \notin {"listing", "filling"} /\ (Busy(x)' => Busy(x)))
  PROVE  OnceInv'
<1> SUFFICES ASSUME "raced" \notin marred'
             PROVE  (AloneInv /\ OneBackfill /\ OwnInv /\ FillOnce /\ LogOnce)'
  BY DEF OnceInv
<1>0. AloneInv /\ OneBackfill /\ OwnInv /\ FillOnce /\ LogOnce
  BY DEF OnceInv
<1>1. \A x \in Msg : Busy(x)' => Busy(x)
  BY DEF Busy
<1>2. \A x \in Msg : pc'[x] \in {"listing", "filling"} => pc'[x] = pc[x]
  OBVIOUS
<1>3. \A x : Recorded(x)' <=> Recorded(x)
  BY DEF Recorded
<1>4. \A x : \A k \in Msg : In(x, fill[k])' <=> In(x, fill[k])
  BY DEF In
<1>5. AloneInv'
  BY <1>0, <1>1, <1>2 DEF AloneInv
<1>6. OneBackfill'
  BY <1>0, <1>2 DEF OneBackfill, Backfilling
<1>7. OwnInv'
  BY <1>0, <1>1, <1>3, <1>4 DEF OwnInv
<1>8. FillOnce'
  <2>1. \A k \in Msg : Distinct(fill[k])' <=> Distinct(fill[k])
    BY DEF Distinct
  <2>2. QED
    BY <1>0, <1>3, <1>4, <2>1 DEF FillOnce
<1>9. LogOnce'
  BY <1>0 DEF LogOnce
<1>10. QED
  BY <1>5, <1>6, <1>7, <1>8, <1>9

LEMMA OncePosts ==
  ASSUME IngestType, ThreadInv, OnceInv, NEW m \in Msg, Posts(m)
  PROVE  OnceInv'
<1> SUFFICES ASSUME "raced" \notin marred'
             PROVE  (AloneInv /\ OneBackfill /\ OwnInv /\ FillOnce /\ LogOnce)'
  BY DEF OnceInv
<1>1. "raced" \notin marred /\ \A k \in Msg : pc[k] # "listing"
  BY DEF Posts, Mar
<1>0. AloneInv /\ OneBackfill /\ OwnInv /\ FillOnce /\ LogOnce
  BY <1>1 DEF OnceInv
<1>2. /\ UNCHANGED <<fill, log>> /\ pc[m] = "none"
      /\ pc'[m] \in {"heard", "unheard"} /\ \A k \in Msg : k # m => pc'[k] = pc[k]
  BY DEF Posts, disk, IngestType
<1>3. ~Recorded(m)
  BY <1>2 DEF ThreadInv, LogInv, Recorded
<1>4. ~In(m, posted)
  BY <1>2 DEF ThreadInv, PostedInv
<1>5. \A k \in Msg : ~In(m, fill[k])
  BY <1>4 DEF ThreadInv, HandlerInv, HandlerOk, In
<1>6. \A x : Recorded(x)' <=> Recorded(x)
  BY <1>2 DEF Recorded
<1>7. \A x : \A k \in Msg : In(x, fill[k])' <=> In(x, fill[k])
  BY <1>2 DEF In
<1>8. \A k \in Msg : k # m => (Busy(k)' <=> Busy(k))
  BY <1>2 DEF Busy
<1>9. AloneInv'
  BY <1>1, <1>2 DEF AloneInv
<1>10. OneBackfill'
  BY <1>0, <1>2 DEF OneBackfill, Backfilling
<1>11. OwnInv'
  BY <1>0, <1>3, <1>5, <1>6, <1>7, <1>8 DEF OwnInv
<1>12. FillOnce'
  <2>1. \A k \in Msg : Distinct(fill[k])' <=> Distinct(fill[k])
    BY <1>2 DEF Distinct
  <2>2. QED
    BY <1>0, <1>6, <1>7, <2>1 DEF FillOnce
<1>13. LogOnce'
  BY <1>0, <1>2 DEF LogOnce
<1>14. QED
  BY <1>9, <1>10, <1>11, <1>12, <1>13

LEMMA OnceHandle ==
  ASSUME IngestType, ThreadInv, OnceInv, NEW m \in Msg, Handle(m)
  PROVE  OnceInv'
<1>1. CASE m \in mention /\ dir = {} /\ pc' = [pc EXCEPT ![m] = "listing"]
  <2> SUFFICES ASSUME "raced" \notin marred'
               PROVE  (AloneInv /\ OneBackfill /\ OwnInv /\ FillOnce /\ LogOnce)'
    BY DEF OnceInv
  <2>1. UNCHANGED <<fill, log>> /\ pc[m] = "heard"
    BY DEF Handle, disk
  <2>2. "raced" \notin marred /\ \A k \in Msg \ {m} : ~Busy(k)
    BY <1>1 DEF Handle, Mar
  <2>0. AloneInv /\ OneBackfill /\ OwnInv /\ FillOnce /\ LogOnce
    BY <2>2 DEF OnceInv
  <2>3. /\ log = <<>> /\ pc'[m] = "listing" /\ \A k \in Msg : k # m => pc'[k] = pc[k]
    BY <1>1 DEF ThreadInv, LogInv, IngestType
  <2>4. \A k \in Msg : k # m => ~Busy(k)' /\ ~Backfilling(k)'
    BY <2>2, <2>3 DEF Busy, Backfilling
  <2>5. \A x : Recorded(x)' <=> Recorded(x)
    BY <2>1 DEF Recorded
  <2>6. \A x : \A k \in Msg : In(x, fill[k])' <=> In(x, fill[k])
    BY <2>1 DEF In
  <2>7. AloneInv'
    BY <2>1, <2>3, <2>4 DEF AloneInv, Backfilling
  <2>8. OneBackfill'
    BY <2>4 DEF OneBackfill
  <2>9. Busy(m)
    BY <2>1 DEF Busy
  <2>10. OwnInv'
    BY <2>0, <2>4, <2>5, <2>6, <2>9 DEF OwnInv
  <2>11. FillOnce'
    <3>1. \A k \in Msg : Distinct(fill[k])' <=> Distinct(fill[k])
      BY <2>1 DEF Distinct
    <3>2. QED
      BY <2>0, <2>5, <2>6, <3>1 DEF FillOnce
  <2>12. LogOnce'
    BY <2>0, <2>1 DEF LogOnce
  <2>13. QED
    BY <2>7, <2>8, <2>10, <2>11, <2>12
<1>2. CASE pc' = [pc EXCEPT ![m] = "own"] \/ pc' = [pc EXCEPT ![m] = "done"]
  <2>1. UNCHANGED <<fill, log, marred>> /\ Busy(m)
    BY <1>2 DEF Handle, disk, Busy, IngestType
  <2>2. \A x \in Msg : pc'[x] = pc[x] \/ (pc'[x] \notin {"listing", "filling"} /\ (Busy(x)' => Busy(x)))
    BY <1>2, <2>1 DEF IngestType
  <2>3. QED
    BY <2>1, <2>2, OnceFrame
<1>3. QED
  BY <1>1, <1>2 DEF Handle

LEMMA OnceLists ==
  ASSUME IngestType, ThreadInv, OnceInv, NEW m \in Msg, Lists(m)
  PROVE  OnceInv'
<1> SUFFICES ASSUME "raced" \notin marred
             PROVE  (AloneInv /\ OneBackfill /\ OwnInv /\ FillOnce /\ LogOnce)'
  BY DEF OnceInv, Lists
<1>0. AloneInv /\ OneBackfill /\ OwnInv /\ FillOnce /\ LogOnce
  BY DEF OnceInv
<1>1. PICK page \in Seq(Msg) :
        /\ fill' = [fill EXCEPT ![m] = @ \o page]
        /\ \A n \in 1 .. Len(page) : \E i \in Page(m) : page[n] = posted[i]
        /\ (\A i, j \in 1 .. Len(posted) : posted[i] = posted[j] => i = j) =>
             \A n, l \in 1 .. Len(page) : page[n] = page[l] => n = l
  BY ListsFacts
<1>2. /\ UNCHANGED log /\ pc[m] = "listing" /\ pc'[m] \in {"listing", "filling"}
      /\ \A k \in Msg : k # m => pc'[k] = pc[k]
  BY DEF Lists, disk, IngestType
<1>3. Busy(m) /\ Backfilling(m) /\ Busy(m)' /\ Backfilling(m)'
  BY <1>2 DEF Busy, Backfilling
<1>4. log = <<>> /\ \A k \in Msg : k # m => ~Busy(k)
  BY <1>0, <1>2 DEF AloneInv
<1>5. \A k \in Msg : k # m => ~Busy(k)' /\ ~Backfilling(k)'
  BY <1>2, <1>4 DEF Busy, Backfilling
<1>6. \A k \in Msg : k # m => fill[k] = <<>> /\ fill'[k] = <<>>
  BY <1>0, <1>1, <1>3, OtherFillEmpty DEF ThreadInv, IngestType
<1>7. \A x : ~Recorded(x)'
  BY <1>2, <1>4, EmptyFacts DEF Recorded
<1> DEFINE old == fill[m]
           new == fill'[m]
<1>8. old \in Seq(Msg) /\ new = old \o page
  BY <1>1 DEF IngestType
<1>9. /\ Len(new) = Len(old) + Len(page) /\ Len(old) \in Nat /\ Len(page) \in Nat
      /\ \A n \in 1 .. Len(new) :
           \/ n \in 1 .. Len(old) /\ new[n] = old[n]
           \/ n - Len(old) \in 1 .. Len(page) /\ new[n] = page[n - Len(old)]
      /\ \A x : In(x, new) <=> In(x, old) \/ In(x, page)
  BY <1>8, ConcatFacts
<1>10. \A n \in 1 .. Len(old) : \E i \in 1 .. Len(posted) : posted[i] = old[n] /\ i <= cursor[m]
  BY <1>2 DEF ThreadInv, HandlerInv, HandlerOk
<1>11. \A n \in 1 .. Len(page) : \E i \in 1 .. Len(posted) :
         posted[i] = page[n] /\ cursor[m] < i /\ posted[i] # m
  BY <1>1 DEF Page
<1>12. \A n \in 1 .. Len(old), l \in 1 .. Len(page) : old[n] # page[l]
  <2> SUFFICES ASSUME NEW n \in 1 .. Len(old), NEW l \in 1 .. Len(page), old[n] = page[l]
               PROVE  FALSE
    OBVIOUS
  <2>1. PICK i \in 1 .. Len(posted) : posted[i] = old[n] /\ i <= cursor[m]
    BY <1>10
  <2>2. PICK j \in 1 .. Len(posted) : posted[j] = page[l] /\ cursor[m] < j
    BY <1>11
  <2>3. i = j
    BY <2>1, <2>2 DEF ThreadInv, PostedInv
  <2>4. cursor[m] \in Nat /\ i \in Int
    BY DEF IngestType
  <2>5. QED
    BY <2>1, <2>2, <2>3, <2>4
<1>13. \A n, l \in 1 .. Len(page) : page[n] = page[l] => n = l
  BY <1>1 DEF ThreadInv, PostedInv
<1>14. \A n, l \in 1 .. Len(old) : old[n] = old[l] => n = l
  BY <1>0 DEF FillOnce, Distinct
<1> HIDE DEF old, new
<1>15. Distinct(new)
  <2> SUFFICES ASSUME NEW i \in 1 .. Len(new), NEW j \in 1 .. Len(new), new[i] = new[j]
               PROVE  i = j
    BY DEF Distinct
  <2>1. CASE i \in 1 .. Len(old) /\ new[i] = old[i] /\ j \in 1 .. Len(old) /\ new[j] = old[j]
    BY <1>14, <2>1
  <2>2. CASE /\ i - Len(old) \in 1 .. Len(page) /\ new[i] = page[i - Len(old)]
             /\ j - Len(old) \in 1 .. Len(page) /\ new[j] = page[j - Len(old)]
    <3>1. i - Len(old) = j - Len(old)
      BY <1>13, <2>2
    <3>2. QED
      BY <1>9, <3>1
  <2>3. QED
    BY <1>9, <1>12, <2>1, <2>2
<1>16. ~In(m, new)
  <2>1. ~In(m, old)
    BY <1>0, <1>3 DEF OwnInv, old
  <2>2. ~In(m, page)
    BY <1>11 DEF In
  <2>3. QED
    BY <1>9, <2>1, <2>2
<1>17. AloneInv'
  BY <1>2, <1>4, <1>5 DEF AloneInv, Busy
<1>18. OneBackfill'
  BY <1>5 DEF OneBackfill
<1>19. \A k \in Msg : \A x : In(x, fill[k])' => k = m /\ In(x, new)
  BY <1>6, EmptyFacts DEF In, new
<1>20. OwnInv'
  BY <1>5, <1>7, <1>16, <1>19 DEF OwnInv
<1>21. FillOnce'
  <2>1. ASSUME NEW k \in Msg PROVE Distinct(fill[k])'
    <3>1. CASE k = m
      BY <1>15, <3>1 DEF Distinct, new
    <3>2. CASE k # m
      <4>1. fill'[k] = <<>>
        BY <1>6, <3>2
      <4>2. QED
        BY <4>1, EmptyFacts DEF Distinct
    <3>3. QED
      BY <3>1, <3>2
  <2>2. QED
    BY <1>7, <2>1 DEF FillOnce
<1>22. LogOnce'
  BY <1>0, <1>2 DEF LogOnce
<1>23. QED
  BY <1>17, <1>18, <1>20, <1>21, <1>22

\* What a record does to the log and to what its backfill has left.
LEMMA RecordsFacts ==
  ASSUME IngestType, NEW m \in Msg, Records(m)
  PROVE  /\ Item(m) \in Msg /\ Saving(m)
         /\ log' \in Seq(Entry) /\ Len(log') = Len(log) + 1 /\ Len(log) \in Nat
         /\ \A i \in 1 .. Len(log) : i \in 1 .. Len(log') /\ log'[i] = log[i]
         /\ log'[Len(log) + 1] = [m |-> Item(m), file |-> ref[m] = "yes"]
         /\ \A x : Recorded(x)' <=> x = Item(m) \/ Recorded(x)
         /\ \A k \in Msg : k # m => fill'[k] = fill[k] /\ pc'[k] = pc[k]
         /\ fill[m] = <<>> => /\ Item(m) = m /\ fill' = fill
                              /\ pc[m] = "own" /\ pc'[m] = "done"
         /\ fill[m] # <<>> => /\ Item(m) = Head(fill[m]) /\ fill'[m] = Tail(fill[m])
                              /\ pc' = pc
<1> DEFINE e == [m |-> Item(m), file |-> ref[m] = "yes"]
<1>1. Item(m) \in Msg /\ Saving(m)
  BY ItemFacts DEF Records
<1>2. e \in Entry /\ e.m = Item(m)
  BY <1>1 DEF Entry
<1>3. log' = Append(log, e)
  BY DEF Records
<1> HIDE DEF e
<1>4. /\ log' \in Seq(Entry) /\ Len(log') = Len(log) + 1 /\ Len(log) \in Nat
      /\ \A i \in 1 .. Len(log) : i \in 1 .. Len(log') /\ log'[i] = log[i]
      /\ log'[Len(log) + 1] = e
  BY <1>2, <1>3, AppendFacts DEF IngestType
<1>5. ASSUME NEW x PROVE Recorded(x)' <=> x = Item(m) \/ Recorded(x)
  <2>1. \A n \in 1 .. Len(log') : n \in 1 .. Len(log) \/ n = Len(log) + 1
    BY <1>4
  <2>2. Len(log) + 1 \in 1 .. Len(log')
    BY <1>4
  <2>3. QED
    BY <1>2, <1>4, <2>1, <2>2 DEF Recorded
<1>6. \A k \in Msg : k # m => fill'[k] = fill[k] /\ pc'[k] = pc[k]
  BY DEF Records, IngestType
<1>7. fill[m] = <<>> => /\ Item(m) = m /\ fill' = fill /\ pc[m] = "own" /\ pc'[m] = "done"
  BY <1>1 DEF Records, IngestType, Item, Saving
<1>8. fill[m] # <<>> => Item(m) = Head(fill[m]) /\ fill'[m] = Tail(fill[m]) /\ pc' = pc
  BY DEF Records, IngestType, Item
<1>9. QED
  BY <1>1, <1>4, <1>5, <1>6, <1>7, <1>8 DEF e

LEMMA OnceRecords ==
  ASSUME IngestType, ThreadInv, OnceInv, NEW m \in Msg, Records(m)
  PROVE  OnceInv'
<1> SUFFICES ASSUME "raced" \notin marred
             PROVE  (AloneInv /\ OneBackfill /\ OwnInv /\ FillOnce /\ LogOnce)'
  BY DEF OnceInv, Records
<1>0. AloneInv /\ OneBackfill /\ OwnInv /\ FillOnce /\ LogOnce
  BY DEF OnceInv
<1>1. /\ Item(m) \in Msg /\ Saving(m)
      /\ Len(log') = Len(log) + 1 /\ Len(log) \in Nat
      /\ \A i \in 1 .. Len(log) : i \in 1 .. Len(log') /\ log'[i] = log[i]
      /\ log'[Len(log) + 1] = [m |-> Item(m), file |-> ref[m] = "yes"]
      /\ \A x : Recorded(x)' <=> x = Item(m) \/ Recorded(x)
      /\ \A k \in Msg : k # m => fill'[k] = fill[k] /\ pc'[k] = pc[k]
  BY RecordsFacts
<1>2. Busy(m) /\ pc[m] # "listing"
  BY <1>1 DEF Saving, Busy
<1>3. \A k \in Msg : pc[k] # "listing"
  BY <1>0, <1>2 DEF AloneInv
<1>4. ASSUME ~Recorded(Item(m)) PROVE LogOnce'
  <2> SUFFICES ASSUME NEW i \in 1 .. Len(log'), NEW j \in 1 .. Len(log'), log'[i].m = log'[j].m
               PROVE  i = j
    BY DEF LogOnce
  <2>1. \A n \in 1 .. Len(log') : n \in 1 .. Len(log) \/ n = Len(log) + 1
    BY <1>1
  <2>2. \A n \in 1 .. Len(log) : log[n].m # Item(m)
    BY <1>4 DEF Recorded
  <2>3. log'[Len(log) + 1].m = Item(m)
    BY <1>1
  <2>4. \A n \in 1 .. Len(log) : log'[n].m # Item(m)
    BY <1>1, <2>2
  <2>5. CASE i \in 1 .. Len(log) /\ j \in 1 .. Len(log)
    BY <1>0, <1>1, <2>5 DEF LogOnce
  <2>6. QED
    BY <2>1, <2>3, <2>4, <2>5
<1>5. CASE fill[m] = <<>>
  <2>1. Item(m) = m /\ fill' = fill /\ pc[m] = "own" /\ pc'[m] = "done"
    BY <1>5, RecordsFacts
  <2>2. ~Recorded(m) /\ \A k \in Msg : ~In(m, fill[k])
    BY <1>0, <1>2 DEF OwnInv
  <2>3. \A k \in Msg : Busy(k)' => k # m /\ Busy(k)
    BY <1>1, <2>1 DEF Busy
  <2>4. \A x : \A k \in Msg : In(x, fill[k])' <=> In(x, fill[k])
    BY <2>1 DEF In
  <2>5. AloneInv'
    BY <1>1, <1>3, <2>1 DEF AloneInv
  <2>6. OneBackfill'
    BY <1>0, <1>1, <2>1 DEF OneBackfill, Backfilling
  <2>7. OwnInv'
    BY <1>0, <1>1, <2>1, <2>3, <2>4 DEF OwnInv
  <2>8. FillOnce'
    <3>1. \A k \in Msg : Distinct(fill[k])' <=> Distinct(fill[k])
      BY <2>1 DEF Distinct
    <3>2. QED
      BY <1>0, <1>1, <2>1, <2>2, <2>4, <3>1 DEF FillOnce
  <2>9. QED
    BY <1>4, <2>1, <2>2, <2>5, <2>6, <2>7, <2>8
<1>6. CASE fill[m] # <<>>
  <2>1. Item(m) = Head(fill[m]) /\ fill'[m] = Tail(fill[m]) /\ pc' = pc
    BY <1>6, RecordsFacts
  <2> DEFINE s == fill[m]
  <2>2. /\ Len(s) \in Nat /\ Head(s) = s[1] /\ Len(s) > 0
        /\ Tail(s) \in Seq(Msg) /\ Len(Tail(s)) = Len(s) - 1
        /\ \A i \in 1 .. Len(Tail(s)) : Tail(s)[i] = s[i + 1]
        /\ \A x : In(x, s) <=> x = Head(s) \/ In(x, Tail(s))
    <3>1. s \in Seq(Msg)
      BY DEF IngestType
    <3>2. QED
      BY <1>6, <3>1, TailFill
  <2>3. Distinct(s)
    BY <1>0 DEF FillOnce
  <2>4. In(Item(m), s)
    BY <2>1, <2>2
  <2>5. ~Recorded(Item(m)) /\ \A k \in Msg : Busy(k) => k # Item(m)
    BY <1>0, <2>4 DEF FillOnce, OwnInv
  <2>6. ~In(Item(m), Tail(s))
    <3> SUFFICES ASSUME NEW i \in 1 .. Len(Tail(s)), Tail(s)[i] = s[1] PROVE FALSE
      BY <2>1, <2>2 DEF In
    <3>1. i + 1 \in 1 .. Len(s) /\ 1 \in 1 .. Len(s) /\ s[i + 1] = s[1]
      BY <2>2
    <3>2. i + 1 = 1
      BY <2>3, <3>1 DEF Distinct
    <3>3. QED
      BY <2>2, <3>2
  <2>7. Distinct(Tail(s))
    <3> SUFFICES ASSUME NEW i \in 1 .. Len(Tail(s)), NEW j \in 1 .. Len(Tail(s)),
                        Tail(s)[i] = Tail(s)[j]
                 PROVE  i = j
      BY DEF Distinct
    <3>1. i + 1 \in 1 .. Len(s) /\ j + 1 \in 1 .. Len(s) /\ s[i + 1] = s[j + 1]
      BY <2>2
    <3>2. i + 1 = j + 1
      BY <2>3, <3>1 DEF Distinct
    <3>3. QED
      BY <2>2, <3>2
  <2>8. Backfilling(m)
    BY <1>6 DEF ThreadInv, HandlerInv, HandlerOk, Backfilling
  <2>9. \A k \in Msg : k # m => fill'[k] = <<>>
    BY <1>0, <1>1, <2>8, OtherFillEmpty DEF ThreadInv
  <2>10. \A k \in Msg : \A x : In(x, fill[k])' => k = m /\ In(x, Tail(s))
    BY <2>1, <2>9, EmptyFacts DEF In
  <2> HIDE DEF s
  <2>11. \A k \in Msg : Busy(k)' <=> Busy(k)
    BY <2>1 DEF Busy
  <2>12. AloneInv'
    BY <1>3, <2>1 DEF AloneInv
  <2>13. OneBackfill'
    BY <1>0, <2>1 DEF OneBackfill, Backfilling
  <2>14. OwnInv'
    <3>1. \A k \in Msg : Busy(k) => ~Recorded(k)'
      BY <1>0, <1>1, <2>5 DEF OwnInv
    <3>2. \A k \in Msg : Busy(k) => ~In(k, Tail(s))
      BY <1>0, <2>2 DEF OwnInv, s
    <3>3. QED
      BY <2>10, <2>11, <3>1, <3>2 DEF OwnInv
  <2>15. FillOnce'
    <3>1. ASSUME NEW k \in Msg PROVE Distinct(fill[k])'
      <4>1. CASE k = m
        BY <2>1, <2>7, <4>1 DEF Distinct, s
      <4>2. CASE k # m
        <5>1. fill'[k] = <<>>
          BY <2>9, <4>2
        <5>2. QED
          BY <5>1, EmptyFacts DEF Distinct
      <4>3. QED
        BY <4>1, <4>2
    <3>2. \A x : In(x, Tail(s)) => ~Recorded(x)'
      BY <1>0, <1>1, <2>2, <2>6 DEF FillOnce, s
    <3>3. QED
      BY <2>10, <3>1, <3>2 DEF FillOnce
  <2>16. QED
    BY <1>4, <2>5, <2>12, <2>13, <2>14, <2>15
<1>7. QED
  BY <1>5, <1>6

LEMMA OnceStep ==
  ASSUME IngestType, ThreadInv, OnceInv, [Next]_vars
  PROVE  OnceInv'
<1>1. ASSUME NEW m \in Msg, Posts(m) PROVE OnceInv'
  BY <1>1, OncePosts
<1>2. ASSUME NEW m \in Msg, Handle(m) PROVE OnceInv'
  BY <1>2, OnceHandle
<1>3. ASSUME NEW m \in Msg, Lists(m) PROVE OnceInv'
  BY <1>3, OnceLists
<1>4. ASSUME NEW m \in Msg, Records(m) PROVE OnceInv'
  BY <1>4, OnceRecords
<1>5. ASSUME NEW m \in Msg, Filled(m) PROVE OnceInv'
  <2>1. /\ UNCHANGED <<fill, log, marred>> /\ pc[m] = "filling" /\ pc'[m] = "own"
        /\ \A x \in Msg : x # m => pc'[x] = pc[x]
    BY <1>5 DEF Filled, disk, IngestType
  <2>2. Busy(m)
    BY <2>1 DEF Busy
  <2>3. QED
    BY <2>1, <2>2, OnceFrame
<1>13. ASSUME NEW m \in Msg, Throws(m) PROVE OnceInv'
  <2>1. /\ UNCHANGED <<log, marred>> /\ Busy(m) /\ pc'[m] = "unheard" /\ fill'[m] = <<>>
        /\ \A x \in Msg : x # m => pc'[x] = pc[x] /\ fill'[x] = fill[x]
    BY <1>13 DEF Throws, disk, IngestType
  <2> SUFFICES ASSUME "raced" \notin marred
               PROVE  (AloneInv /\ OneBackfill /\ OwnInv /\ FillOnce /\ LogOnce)'
    BY <2>1 DEF OnceInv
  <2>0. AloneInv /\ OneBackfill /\ OwnInv /\ FillOnce /\ LogOnce
    BY DEF OnceInv
  <2>2. ~Busy(m)' /\ ~Backfilling(m)'
    BY <2>1 DEF Busy, Backfilling
  <2>3. \A x \in Msg : x # m => (Busy(x)' <=> Busy(x)) /\ (Backfilling(x)' <=> Backfilling(x))
    BY <2>1 DEF Busy, Backfilling
  <2>4. \A x : Recorded(x)' <=> Recorded(x)
    BY <2>1 DEF Recorded
  <2>5. \A x : \A k \in Msg : In(x, fill[k])' => In(x, fill[k])
    <3> SUFFICES ASSUME NEW x, NEW k \in Msg, In(x, fill'[k]) PROVE In(x, fill[k])
      BY DEF In
    <3>1. CASE k = m
      BY <2>1, <3>1, EmptyFacts
    <3>2. CASE k # m
      BY <2>1, <3>2
    <3>3. QED
      BY <3>1, <3>2
  <2>6. \A k \in Msg : Distinct(fill[k])'
    <3>1. Distinct(fill[m])'
      BY <2>1, EmptyFacts DEF Distinct
    <3>2. \A k \in Msg : k # m => (Distinct(fill[k])' <=> Distinct(fill[k]))
      BY <2>1 DEF Distinct
    <3>3. QED
      BY <2>0, <3>1, <3>2 DEF FillOnce
  <2>7. AloneInv'
    <3>1. \A k \in Msg : pc'[k] = "listing" => k # m /\ pc[k] = "listing"
      BY <2>1
    <3>2. log' = log
      BY <2>1
    <3>3. QED
      BY <2>0, <2>2, <2>3, <3>1, <3>2 DEF AloneInv
  <2>8. OneBackfill'
    BY <2>0, <2>2, <2>3 DEF OneBackfill
  <2>9. OwnInv'
    BY <2>0, <2>2, <2>3, <2>4, <2>5 DEF OwnInv
  <2>10. FillOnce'
    BY <2>0, <2>4, <2>5, <2>6 DEF FillOnce
  <2>11. LogOnce'
    BY <2>0, <2>1 DEF LogOnce
  <2>12. QED
    BY <2>7, <2>8, <2>9, <2>10, <2>11
<1>6. ASSUME UNCHANGED <<pc, fill, log>>, "raced" \notin marred' => "raced" \notin marred
      PROVE  OnceInv'
  BY <1>6, OnceFrame
<1>7. ASSUME NEW m \in Msg, \/ Removes(m) \/ Fetch(m) \/ Save(m) \/ DeleteReads(m)
                            \/ DeleteUnlinks(m) \/ DeleteRecords(m) \/ PushStarts(m)
      PROVE  OnceInv'
  <2>1. UNCHANGED <<pc, fill, log>>
    BY <1>7 DEF Removes, Fetch, Save, DeleteReads, DeleteUnlinks, DeleteRecords, PushStarts, disk,
                handlers
  <2>2. "raced" \notin marred' => "raced" \notin marred
    BY <1>7 DEF Removes, Fetch, Save, DeleteReads, DeleteUnlinks, DeleteRecords, PushStarts, Mar
  <2>3. QED
    BY <1>6, <2>1, <2>2
<1>8. ASSUME EditArrives \/ PushEnds \/ Wipe \/ WipeBox \/ SandboxMoves \/ UNCHANGED vars
      PROVE  OnceInv'
  <2>1. UNCHANGED <<pc, fill, log>>
    BY <1>8 DEF EditArrives, PushEnds, Wipe, WipeBox, SandboxMoves, vars, disk, handlers
  <2>2. "raced" \notin marred' => "raced" \notin marred
    BY <1>8 DEF EditArrives, PushEnds, Wipe, WipeBox, SandboxMoves, vars, Mar
  <2>3. QED
    BY <1>6, <2>1, <2>2
<1>9. ASSUME log' = <<>>, \A x \in Msg : pc'[x] = pc[x], fill' = fill,
             "raced" \notin marred' => "raced" \notin marred
      PROVE  OnceInv'
  <2> SUFFICES ASSUME "raced" \notin marred'
               PROVE  (AloneInv /\ OneBackfill /\ OwnInv /\ FillOnce /\ LogOnce)'
    BY DEF OnceInv
  <2>0. AloneInv /\ OneBackfill /\ OwnInv /\ FillOnce /\ LogOnce
    BY <1>9 DEF OnceInv
  <2>1. \A x : ~Recorded(x)'
    BY <1>9, EmptyFacts DEF Recorded
  <2>2. \A x \in Msg : Busy(x)' <=> Busy(x)
    BY <1>9 DEF Busy
  <2>3. \A x : \A k \in Msg : In(x, fill[k])' <=> In(x, fill[k])
    BY <1>9 DEF In
  <2>4. AloneInv' /\ OneBackfill' /\ LogOnce'
    BY <1>9, <2>0, <2>2, EmptyFacts DEF AloneInv, OneBackfill, Backfilling, LogOnce
  <2>5. OwnInv'
    BY <2>0, <2>1, <2>2, <2>3 DEF OwnInv
  <2>6. FillOnce'
    <3>1. \A k \in Msg : Distinct(fill[k])' <=> Distinct(fill[k])
      BY <1>9 DEF Distinct
    <3>2. QED
      BY <2>0, <2>1, <3>1 DEF FillOnce
  <2>7. QED
    BY <2>4, <2>5, <2>6
<1>10. CASE WipeData
  <2>1. log' = <<>> /\ UNCHANGED <<pc, fill>> /\ ("raced" \notin marred' => "raced" \notin marred)
    BY <1>10 DEF WipeData, Mar, handlers
  <2>2. QED
    BY <1>9, <2>1
<1>11. CASE Crash
  <2> SUFFICES ASSUME "raced" \notin marred'
               PROVE  (AloneInv /\ OneBackfill /\ OwnInv /\ FillOnce /\ LogOnce)'
    BY DEF OnceInv
  <2>0. LogOnce
    BY <1>11 DEF OnceInv, Crash, Mar
  <2>1. /\ log' = log /\ \A k \in Msg : fill'[k] = <<>>
        /\ \A k \in Msg : pc'[k] \notin {"heard", "listing", "filling", "own"}
    BY <1>11 DEF Crash, disk, Busy
  <2>2. \A k \in Msg : ~Busy(k)' /\ ~Backfilling(k)'
    BY <2>1 DEF Busy, Backfilling
  <2>3. \A x : \A k \in Msg : ~In(x, fill[k])'
    BY <2>1, EmptyFacts DEF In
  <2>4. \A k \in Msg : Distinct(fill[k])'
    BY <2>1, EmptyFacts DEF Distinct
  <2>5. AloneInv' /\ OneBackfill'
    BY <2>1, <2>2 DEF AloneInv, OneBackfill
  <2>6. OwnInv' /\ FillOnce'
    BY <2>2, <2>3, <2>4 DEF OwnInv, FillOnce
  <2>7. LogOnce'
    BY <2>0, <2>1 DEF LogOnce
  <2>8. QED
    BY <2>5, <2>6, <2>7
<1>12. QED
  BY <1>1, <1>2, <1>3, <1>4, <1>5, <1>7, <1>8, <1>10, <1>11, <1>13 DEF Next

LEMMA OnceInit == Init => PostedInv /\ HandlerInv /\ LogInv /\ OnceInv
<1> SUFFICES ASSUME Init PROVE PostedInv /\ HandlerInv /\ LogInv /\ OnceInv
  OBVIOUS
<1>1. /\ posted = <<>> /\ gone = {} /\ log = <<>>
      /\ \A x \in Msg : /\ pc[x] = "none" /\ del[x] = "none" /\ fill[x] = <<>> /\ cursor[x] = 0
                        /\ ref[x] = "none"
  BY DEF Init
<1>2. PostedInv
  BY <1>1, EmptyFacts DEF PostedInv
<1>3. HandlerInv
  BY <1>1, EmptyFacts DEF HandlerInv, HandlerOk
<1>4. LogInv
  BY <1>1, EmptyFacts DEF LogInv
<1>5. \A x \in Msg : ~Busy(x) /\ ~Backfilling(x) /\ Distinct(fill[x]) /\ \A y : ~In(y, fill[x])
  BY <1>1, EmptyFacts DEF Busy, Backfilling, Distinct
<1>6. OnceInv
  BY <1>1, <1>5, EmptyFacts DEF OnceInv, AloneInv, OneBackfill, OwnInv, FillOnce, LogOnce
<1>7. QED
  BY <1>2, <1>3, <1>4, <1>6

\* What is known of every state, the files apart.
ReachInv == IngestType /\ ThreadInv /\ OnceInv

LEMMA Reachable == Spec => []ReachInv
<1>1. Init => ReachInv
  BY TypeInit, OnceInit DEF ReachInv, ThreadInv
<1>2. ReachInv /\ [Next]_vars => ReachInv'
  BY TypeStep, PostedStep, HandlerStep, LogStep, OnceStep DEF ReachInv, ThreadInv
<1>3. QED
  BY <1>1, <1>2, PTL DEF Spec

\* No message is recorded twice, over the pages of a backfill, the events handled
\* next to it and the crash of either, unless an event was on its way when a
\* backfill listed the thread (backfillIfNew, persistence/backfill.ts).
THEOREM MessagesRecordedOnce == Spec => []RecordedOnce
<1>1. ReachInv => RecordedOnce
  BY LogIsOnce DEF ReachInv
<1>2. QED
  BY <1>1, Reachable, PTL

-----------------------------------------------------------------------------
(* A backfill leaves nothing out.                                          *)

\* What was there when a backfill began is listed or to be listed, then to be
\* recorded or recorded.
FillInv ==
  "wiped" \notin marred =>
    \A m \in Msg : \A x \in before[m] \ (gone \cup {m}) :
      /\ pc[m] = "listing" =>
           In(x, fill[m]) \/ \E i \in 1 .. Len(posted) : cursor[m] < i /\ posted[i] = x
      /\ pc[m] = "filling" => In(x, fill[m]) \/ Recorded(x)

LEMMA FillFrame ==
  ASSUME "wiped" \notin marred' => "wiped" \notin marred, FillInv,
         UNCHANGED <<before, fill, cursor, posted, log>>, gone \subseteq gone',
         \A k \in Msg : pc'[k] = pc[k] \/ pc'[k] \notin {"listing", "filling"}
  PROVE  FillInv'
<1> SUFFICES ASSUME "wiped" \notin marred', NEW m \in Msg,
                    NEW x \in before'[m] \ (gone' \cup {m})
             PROVE  /\ pc'[m] = "listing" =>
                         In(x, fill'[m]) \/ \E i \in 1 .. Len(posted') : cursor'[m] < i /\ posted'[i] = x
                    /\ pc'[m] = "filling" => In(x, fill'[m]) \/ Recorded(x)'
  BY DEF FillInv
<1>1. x \in before[m] \ (gone \cup {m})
  OBVIOUS
<1>2. /\ pc[m] = "listing" =>
           In(x, fill[m]) \/ \E i \in 1 .. Len(posted) : cursor[m] < i /\ posted[i] = x
      /\ pc[m] = "filling" => In(x, fill[m]) \/ Recorded(x)
  BY <1>1 DEF FillInv
<1>3. Recorded(x)' <=> Recorded(x)
  BY DEF Recorded
<1>4. In(x, fill'[m]) <=> In(x, fill[m])
  OBVIOUS
<1>5. pc'[m] \in {"listing", "filling"} => pc'[m] = pc[m]
  OBVIOUS
<1>6. posted' = posted /\ cursor' = cursor
  OBVIOUS
<1>7. QED
  BY <1>2, <1>3, <1>4, <1>5, <1>6

LEMMA FillHandle ==
  ASSUME IngestType, ThreadInv, FillInv, NEW m \in Msg, Handle(m)
  PROVE  FillInv'
<1>1. CASE pc' = [pc EXCEPT ![m] = "listing"] /\ before' = [before EXCEPT ![m] = Range(posted)]
  <2> SUFFICES ASSUME "wiped" \notin marred', NEW k \in Msg,
                      NEW x \in before'[k] \ (gone' \cup {k})
               PROVE  /\ pc'[k] = "listing" =>
                           In(x, fill'[k]) \/ \E i \in 1 .. Len(posted') : cursor'[k] < i /\ posted'[i] = x
                      /\ pc'[k] = "filling" => In(x, fill'[k]) \/ Recorded(x)'
    BY DEF FillInv
  <2>1. /\ UNCHANGED <<fill, log, posted, gone, cursor>> /\ pc[m] = "heard"
        /\ "wiped" \notin marred
    BY DEF Handle, disk, slackSide, Mar
  <2>2. CASE k = m
    <3>1. x \in Range(posted) /\ pc'[m] = "listing"
      BY <1>1, <2>2 DEF IngestType
    <3>2. PICK i \in 1 .. Len(posted) : posted[i] = x
      BY <3>1, InRange DEF IngestType, In
    <3>3. cursor[m] = 0
      BY <2>1 DEF ThreadInv, HandlerInv, HandlerOk
    <3>4. cursor[m] < i
      BY <3>2, <3>3 DEF IngestType
    <3>5. QED
      BY <2>1, <2>2, <3>1, <3>2, <3>4
  <2>3. CASE k # m
    <3>1. before'[k] = before[k] /\ pc'[k] = pc[k]
      BY <1>1, <2>3 DEF IngestType
    <3>2. /\ pc[k] = "listing" =>
               In(x, fill[k]) \/ \E i \in 1 .. Len(posted) : cursor[k] < i /\ posted[i] = x
          /\ pc[k] = "filling" => In(x, fill[k]) \/ Recorded(x)
      BY <2>1, <3>1 DEF FillInv
    <3>3. Recorded(x)' <=> Recorded(x)
      BY <2>1 DEF Recorded
    <3>4. posted' = posted /\ cursor' = cursor /\ fill' = fill
      BY <2>1
    <3>5. QED
      BY <3>1, <3>2, <3>3, <3>4
  <2>4. QED
    BY <2>2, <2>3
<1>2. CASE UNCHANGED <<before, marred>> /\ (pc' = [pc EXCEPT ![m] = "own"] \/ pc' = [pc EXCEPT ![m] = "done"])
  <2>1. \A k \in Msg : pc'[k] = pc[k] \/ pc'[k] \notin {"listing", "filling"}
    BY <1>2 DEF IngestType
  <2>2. UNCHANGED <<fill, log, posted, gone, cursor>>
    BY DEF Handle, disk, slackSide
  <2>3. QED
    BY <1>2, <2>1, <2>2, FillFrame DEF Handle
<1>3. QED
  <2>1. \/ pc' = [pc EXCEPT ![m] = "listing"] /\ before' = [before EXCEPT ![m] = Range(posted)]
        \/ UNCHANGED <<before, marred>> /\ (pc' = [pc EXCEPT ![m] = "own"] \/ pc' = [pc EXCEPT ![m] = "done"])
    BY DEF Handle
  <2>2. QED
    BY <1>1, <1>2, <2>1

LEMMA FillLists ==
  ASSUME IngestType, ThreadInv, FillInv, NEW m \in Msg, Lists(m)
  PROVE  FillInv'
<1>1. PICK page \in Seq(Msg) :
        /\ fill' = [fill EXCEPT ![m] = @ \o page]
        /\ \A i \in Page(m) : In(posted[i], page)
  BY ListsFacts
<1>2. /\ UNCHANGED <<log, posted, gone, before, marred>> /\ pc[m] = "listing"
      /\ pc'[m] = IF cursor[m] + PageSize >= Len(posted) THEN "filling" ELSE "listing"
      /\ cursor'[m] = cursor[m] + PageSize
      /\ \A k \in Msg : k # m => pc'[k] = pc[k] /\ cursor'[k] = cursor[k]
  BY DEF Lists, disk, slackSide, IngestType
<1> SUFFICES ASSUME "wiped" \notin marred', NEW k \in Msg,
                    NEW x \in before'[k] \ (gone' \cup {k})
             PROVE  /\ pc'[k] = "listing" =>
                         In(x, fill'[k]) \/ \E i \in 1 .. Len(posted') : cursor'[k] < i /\ posted'[i] = x
                    /\ pc'[k] = "filling" => In(x, fill'[k]) \/ Recorded(x)'
  BY DEF FillInv
<1>3. /\ pc[k] = "listing" =>
           In(x, fill[k]) \/ \E i \in 1 .. Len(posted) : cursor[k] < i /\ posted[i] = x
      /\ pc[k] = "filling" => In(x, fill[k]) \/ Recorded(x)
  BY <1>2 DEF FillInv
<1>4. CASE k = m
  <2>1. fill[m] \in Seq(Msg) /\ fill'[m] = fill[m] \o page
    BY <1>1 DEF IngestType
  <2>2. In(x, fill'[m]) <=> In(x, fill[m]) \/ In(x, page)
    BY <2>1, ConcatFacts
  <2>3. ASSUME NEW i \in 1 .. Len(posted), cursor[m] < i, posted[i] = x,
               i <= cursor[m] + PageSize
        PROVE  In(x, fill'[m])
    <3>1. i \in Page(m)
      BY <1>2, <1>4, <2>3 DEF Page
    <3>2. QED
      BY <1>1, <2>2, <2>3, <3>1
  <2>4. ASSUME NEW i \in 1 .. Len(posted), ~(i <= cursor[m] + PageSize)
        PROVE  pc'[m] = "listing" /\ cursor'[m] < i
    BY <1>2, <2>4, IngestAssumption DEF IngestType
  <2>5. CASE In(x, fill[m])
    BY <1>4, <2>2, <2>5
  <2>6. CASE \E i \in 1 .. Len(posted) : cursor[m] < i /\ posted[i] = x
    <3>1. PICK i \in 1 .. Len(posted) : cursor[m] < i /\ posted[i] = x
      BY <2>6
    <3>2. CASE i <= cursor[m] + PageSize
      BY <1>4, <2>3, <3>1, <3>2
    <3>3. CASE ~(i <= cursor[m] + PageSize)
      <4>1. pc'[m] = "listing" /\ cursor'[m] < i
        BY <2>4, <3>3
      <4>2. posted' = posted
        BY <1>2
      <4>3. QED
        BY <1>4, <3>1, <4>1, <4>2
    <3>4. QED
      BY <3>2, <3>3
  <2>7. QED
    BY <1>2, <1>3, <1>4, <2>5, <2>6
<1>5. CASE k # m
  <2>1. fill'[k] = fill[k] /\ pc'[k] = pc[k] /\ cursor'[k] = cursor[k] /\ posted' = posted
    BY <1>1, <1>2, <1>5
  <2>2. Recorded(x)' <=> Recorded(x)
    BY <1>2 DEF Recorded
  <2>3. QED
    BY <1>3, <2>1, <2>2
<1>6. QED
  BY <1>4, <1>5

LEMMA FillRecords ==
  ASSUME IngestType, ThreadInv, FillInv, NEW m \in Msg, Records(m)
  PROVE  FillInv'
<1>1. /\ Saving(m)
      /\ \A x : Recorded(x)' <=> x = Item(m) \/ Recorded(x)
      /\ \A k \in Msg : k # m => fill'[k] = fill[k] /\ pc'[k] = pc[k]
      /\ fill[m] = <<>> => fill' = fill /\ pc'[m] = "done"
      /\ fill[m] # <<>> => Item(m) = Head(fill[m]) /\ fill'[m] = Tail(fill[m]) /\ pc' = pc
  BY RecordsFacts
<1>2. UNCHANGED <<posted, gone, before, marred, cursor>>
  BY DEF Records, slackSide
<1> SUFFICES ASSUME "wiped" \notin marred', NEW k \in Msg,
                    NEW x \in before'[k] \ (gone' \cup {k})
             PROVE  /\ pc'[k] = "listing" =>
                         In(x, fill'[k]) \/ \E i \in 1 .. Len(posted') : cursor'[k] < i /\ posted'[i] = x
                    /\ pc'[k] = "filling" => In(x, fill'[k]) \/ Recorded(x)'
  BY DEF FillInv
<1>3. /\ pc[k] = "listing" =>
           In(x, fill[k]) \/ \E i \in 1 .. Len(posted) : cursor[k] < i /\ posted[i] = x
      /\ pc[k] = "filling" => In(x, fill[k]) \/ Recorded(x)
  BY <1>2 DEF FillInv
<1>4. CASE k # m
  BY <1>1, <1>2, <1>3, <1>4
<1>5. CASE k = m /\ fill[m] = <<>>
  BY <1>1, <1>5
<1>6. CASE k = m /\ fill[m] # <<>>
  <2>1. pc[m] = "filling"
    BY <1>1, <1>6 DEF ThreadInv, HandlerInv, HandlerOk, Saving
  <2>2. In(x, fill[m]) <=> x = Head(fill[m]) \/ In(x, Tail(fill[m]))
    BY <1>6, TailFill DEF IngestType
  <2>3. QED
    BY <1>1, <1>3, <1>6, <2>1, <2>2
<1>7. QED
  BY <1>4, <1>5, <1>6

LEMMA FillStep ==
  ASSUME IngestType, ThreadInv, FillInv, [Next]_vars
  PROVE  FillInv'
<1>1. ASSUME NEW m \in Msg, Posts(m) PROVE FillInv'
  <2>1. /\ UNCHANGED <<before, fill, cursor, log, gone>>
        /\ \A k \in Msg : pc'[k] = pc[k] \/ pc'[k] \notin {"listing", "filling"}
        /\ "wiped" \notin marred' => "wiped" \notin marred
    BY <1>1 DEF Posts, disk, Mar, IngestType
  <2>2. \A i \in 1 .. Len(posted) : i \in 1 .. Len(posted)' /\ posted'[i] = posted[i]
    BY <1>1, AppendFacts DEF Posts, IngestType
  <2> SUFFICES ASSUME "wiped" \notin marred', NEW k \in Msg,
                      NEW x \in before'[k] \ (gone' \cup {k})
               PROVE  /\ pc'[k] = "listing" =>
                           In(x, fill'[k]) \/ \E i \in 1 .. Len(posted') : cursor'[k] < i /\ posted'[i] = x
                      /\ pc'[k] = "filling" => In(x, fill'[k]) \/ Recorded(x)'
    BY DEF FillInv
  <2>3. /\ pc[k] = "listing" =>
             In(x, fill[k]) \/ \E i \in 1 .. Len(posted) : cursor[k] < i /\ posted[i] = x
        /\ pc[k] = "filling" => In(x, fill[k]) \/ Recorded(x)
    BY <2>1 DEF FillInv
  <2>4. Recorded(x)' <=> Recorded(x)
    BY <2>1 DEF Recorded
  <2>5. fill' = fill /\ cursor' = cursor
    BY <2>1
  <2>6. pc'[k] \in {"listing", "filling"} => pc'[k] = pc[k]
    BY <2>1
  <2>7. QED
    BY <2>2, <2>3, <2>4, <2>5, <2>6
<1>2. ASSUME NEW m \in Msg, Handle(m) \/ Lists(m) \/ Records(m) PROVE FillInv'
  BY <1>2, FillHandle, FillLists, FillRecords
<1>3. ASSUME NEW m \in Msg, Filled(m) PROVE FillInv'
  <2> SUFFICES ASSUME "wiped" \notin marred', NEW k \in Msg,
                      NEW x \in before'[k] \ (gone' \cup {k})
               PROVE  /\ pc'[k] = "listing" =>
                           In(x, fill'[k]) \/ \E i \in 1 .. Len(posted') : cursor'[k] < i /\ posted'[i] = x
                      /\ pc'[k] = "filling" => In(x, fill'[k]) \/ Recorded(x)'
    BY DEF FillInv
  <2>1. UNCHANGED <<fill, log, posted, gone, marred>> /\ pc'[m] = "own"
    BY <1>3 DEF Filled, disk, slackSide, IngestType
  <2>2. CASE k = m
    BY <2>1, <2>2
  <2>3. CASE k # m
    <3>1. pc'[k] = pc[k] /\ cursor'[k] = cursor[k] /\ before'[k] = before[k] /\ fill' = fill
          /\ posted' = posted /\ gone' = gone
      BY <1>3, <2>1, <2>3 DEF Filled, IngestType
    <3>2. Recorded(x)' <=> Recorded(x)
      BY <2>1 DEF Recorded
    <3>3. /\ pc[k] = "listing" =>
               In(x, fill[k]) \/ \E i \in 1 .. Len(posted) : cursor[k] < i /\ posted[i] = x
          /\ pc[k] = "filling" => In(x, fill[k]) \/ Recorded(x)
      BY <2>1, <3>1 DEF FillInv
    <3>4. QED
      BY <3>1, <3>2, <3>3
  <2>4. QED
    BY <2>2, <2>3
<1>4. ASSUME "wiped" \notin marred' => "wiped" \notin marred,
             UNCHANGED <<before, pc, fill, cursor, posted, log>>, gone \subseteq gone'
      PROVE  FillInv'
  BY <1>4, FillFrame
<1>5. ASSUME NEW m \in Msg, Removes(m) PROVE FillInv'
  <2>1. UNCHANGED <<before, pc, fill, cursor, posted, log, marred>> /\ gone' = gone \cup {m}
    BY <1>5 DEF Removes, disk
  <2>2. QED
    BY <1>4, <2>1
<1>6. ASSUME NEW m \in Msg, Fetch(m) \/ Save(m) \/ DeleteReads(m) \/ DeleteUnlinks(m)
                            \/ DeleteRecords(m) \/ PushStarts(m)
      PROVE  FillInv'
  <2>1. UNCHANGED <<before, pc, fill, cursor>>
    BY <1>6 DEF Fetch, Save, DeleteReads, DeleteUnlinks, DeleteRecords, PushStarts, handlers
  <2>2. UNCHANGED <<posted, gone, log>>
    BY <1>6 DEF Fetch, Save, DeleteReads, DeleteUnlinks, DeleteRecords, PushStarts, disk, slackSide
  <2>3. "wiped" \notin marred' => "wiped" \notin marred
    BY <1>6 DEF Fetch, Save, DeleteReads, DeleteUnlinks, DeleteRecords, PushStarts, Mar
  <2>4. QED
    BY <1>4, <2>1, <2>2, <2>3
<1>7. CASE EditArrives \/ PushEnds \/ Wipe \/ WipeBox \/ SandboxMoves \/ UNCHANGED vars
  <2>1. UNCHANGED <<before, pc, fill, cursor>>
    BY <1>7 DEF EditArrives, PushEnds, Wipe, WipeBox, SandboxMoves, vars, handlers
  <2>2. UNCHANGED <<posted, gone, log>>
    BY <1>7 DEF EditArrives, PushEnds, Wipe, WipeBox, SandboxMoves, vars, disk, slackSide
  <2>3. "wiped" \notin marred' => "wiped" \notin marred
    BY <1>7 DEF EditArrives, PushEnds, Wipe, WipeBox, SandboxMoves, vars, Mar
  <2>4. QED
    BY <1>4, <2>1, <2>2, <2>3
<1>8. CASE WipeData \/ Crash
  <2> SUFFICES ASSUME "wiped" \notin marred'
               PROVE  \A k \in Msg : pc'[k] \notin {"listing", "filling"}
    BY DEF FillInv
  <2>1. CASE WipeData
    <3>1. pc' = pc /\ \A k \in Msg : Busy(k) => pc[k] = "heard"
      BY <2>1 DEF WipeData, handlers, Mar
    <3>2. QED
      BY <3>1 DEF Busy
  <2>2. CASE Crash
    BY <2>2 DEF Crash, Busy
  <2>3. QED
    BY <1>8, <2>1, <2>2
<1>9. ASSUME NEW m \in Msg, Throws(m) PROVE FillInv'
  <2> SUFFICES ASSUME "wiped" \notin marred', NEW k \in Msg,
                      NEW x \in before'[k] \ (gone' \cup {k})
               PROVE  /\ pc'[k] = "listing" =>
                           In(x, fill'[k]) \/ \E i \in 1 .. Len(posted') : cursor'[k] < i /\ posted'[i] = x
                      /\ pc'[k] = "filling" => In(x, fill'[k]) \/ Recorded(x)'
    BY DEF FillInv
  <2>1. UNCHANGED <<before, log, posted, gone, marred>> /\ pc'[m] = "unheard"
    BY <1>9 DEF Throws, disk, slackSide, IngestType
  <2>2. CASE k = m
    BY <2>1, <2>2
  <2>3. CASE k # m
    <3>1. /\ pc'[k] = pc[k] /\ cursor'[k] = cursor[k] /\ before'[k] = before[k]
          /\ fill'[k] = fill[k] /\ posted' = posted /\ gone' = gone
      BY <1>9, <2>1, <2>3 DEF Throws, IngestType
    <3>2. Recorded(x)' <=> Recorded(x)
      BY <2>1 DEF Recorded
    <3>3. /\ pc[k] = "listing" =>
               In(x, fill[k]) \/ \E i \in 1 .. Len(posted) : cursor[k] < i /\ posted[i] = x
          /\ pc[k] = "filling" => In(x, fill[k]) \/ Recorded(x)
      BY <2>1, <3>1 DEF FillInv
    <3>4. QED
      BY <3>1, <3>2, <3>3
  <2>4. QED
    BY <2>2, <2>3
<1>10. QED
  BY <1>1, <1>2, <1>3, <1>5, <1>6, <1>7, <1>8, <1>9 DEF Next

LEMMA FillHolds == Spec => []FillInv
<1>1. Init => FillInv
  <2> SUFFICES ASSUME Init PROVE FillInv
    OBVIOUS
  <2>1. \A m \in Msg : before[m] = {}
    BY DEF Init
  <2>2. QED
    BY <2>1 DEF FillInv
<1>2. ReachInv /\ FillInv /\ [Next]_vars => FillInv'
  BY FillStep DEF ReachInv
<1>3. QED
  BY <1>1, <1>2, Reachable, PTL DEF Spec

\* Nothing that was in the thread when a backfill began is missing from the log when
\* the mention that triggered it goes on to its own record, over all pages and
\* whatever is posted, deleted or recorded meanwhile, unless a /delete took the
\* directory away (backfillIfNew, persistence/backfill.ts).
THEOREM BackfillIsWhole == Spec => BackfillWhole
<1> DEFINE Whole(m) ==
             pc[m] = "filling" /\ pc'[m] = "own" /\ "wiped" \notin marred =>
               before[m] \ (gone \cup {m}) \subseteq Logged
<1>1. ASSUME ReachInv, FillInv, [Next]_vars
      PROVE  \A m \in Msg : Whole(m)
  <2> SUFFICES ASSUME NEW m \in Msg, pc[m] = "filling", pc'[m] = "own", "wiped" \notin marred,
                      NEW x \in before[m] \ (gone \cup {m})
               PROVE  x \in Logged
    OBVIOUS
  <2> USE <1>1
  <2>0. IngestType
    BY DEF ReachInv
  <2>1. ASSUME NEW k \in Msg, Posts(k) \/ Handle(k) \/ Lists(k) PROVE FALSE
    <3>1. pc[k] # "filling"
      BY <2>1 DEF Posts, Handle, Lists
    <3>2. \E v : pc' = [pc EXCEPT ![k] = v]
      BY <2>1 DEF Posts, Handle, Lists
    <3>3. QED
      BY <2>0, <3>1, <3>2 DEF IngestType
  <2>2. ASSUME NEW k \in Msg, Records(k) PROVE FALSE
    <3>1. \A j \in Msg : j # k => pc'[j] = pc[j]
      BY <2>0, <2>2, RecordsFacts
    <3>2. pc' = pc \/ pc'[k] = "done"
      BY <2>0, <2>2, RecordsFacts
    <3>3. QED
      BY <3>1, <3>2
  <2>3. ASSUME NEW k \in Msg, \/ Removes(k) \/ Fetch(k) \/ Save(k) \/ DeleteReads(k)
                              \/ DeleteUnlinks(k) \/ DeleteRecords(k) \/ PushStarts(k)
        PROVE  FALSE
    BY <2>3 DEF Removes, Fetch, Save, DeleteReads, DeleteUnlinks, DeleteRecords, PushStarts, handlers
  <2>4. ~(EditArrives \/ PushEnds \/ Wipe \/ WipeData \/ WipeBox \/ SandboxMoves \/ UNCHANGED vars)
    BY DEF EditArrives, PushEnds, Wipe, WipeData, WipeBox, SandboxMoves, vars, handlers
  <2>5. ASSUME Crash PROVE FALSE
    <3>1. Busy(m)
      BY DEF Busy
    <3>2. pc'[m] = "unheard"
      BY <2>5, <3>1 DEF Crash
    <3>3. QED
      BY <3>2
  <2>10. ASSUME NEW k \in Msg, Throws(k) PROVE FALSE
    <3>1. pc' = [pc EXCEPT ![k] = "unheard"]
      BY <2>10 DEF Throws
    <3>2. QED
      BY <2>0, <3>1 DEF IngestType
  <2>6. \E k \in Msg : Filled(k)
    BY <2>1, <2>2, <2>3, <2>4, <2>5, <2>10 DEF Next
  <2>7. fill[m] = <<>>
    BY <2>0, <2>6 DEF Filled, IngestType
  <2>8. Recorded(x)
    BY <2>7, EmptyFacts DEF FillInv
  <2>9. QED
    BY <2>0, <2>8, LoggedRecorded
<1>2. QED
  BY <1>1, Reachable, FillHolds, PTL DEF Spec, BackfillWhole

-----------------------------------------------------------------------------
(* The files of the records.                                               *)

HasFile(x) == \E n \in 1 .. Len(log) : log[n] = [m |-> x, file |-> TRUE]
InHand(x) == \E k \in Msg : ref[k] = "yes" /\ Item(k) = x

\* A file that is or will be recorded is on the disk, or its message is deleted.
FilesInv ==
  "wiped" \notin marred =>
    /\ \A n \in 1 .. Len(log) : log[n].file => log[n].m \in att \cup gone
    /\ \A k \in Msg : ref[k] = "yes" => Item(k) \in att \cup gone

\* A file on the disk is recorded or about to be; from the moment its deletion has
\* looked it up no handler has the message any more.
GoneOk(x) ==
  /\ x \in att => HasFile(x) \/ InHand(x)
  /\ del[x] \in {"unlink", "record", "done"} => ~Busy(x) /\ \A k \in Msg : ~In(x, fill[k])
  /\ del[x] \in {"record", "done"} => x \notin att

GoneInv == \A x \in Msg : x \notin stray => GoneOk(x)

\* A message that is listed or handled is not deleted yet for whoever handles that.
LEMMA SavingFacts ==
  ASSUME IngestType, ThreadInv, NEW k \in Msg, ref[k] # "none"
  PROVE  /\ Saving(k) /\ Busy(k) /\ pc[k] # "heard" /\ Item(k) \in Msg
         /\ Item(k) = k \/ In(Item(k), fill[k])
<1>1. Saving(k)
  BY DEF ThreadInv, HandlerInv, HandlerOk
<1>2. QED
  BY <1>1, ItemFacts DEF Saving, Busy

LEMMA FilesFrame ==
  ASSUME IngestType, FilesInv, "wiped" \notin marred' => "wiped" \notin marred,
         gone \subseteq gone', att \subseteq att' \cup gone, UNCHANGED log,
         \A k \in Msg : ref'[k] = "yes" => ref[k] = "yes" /\ fill'[k] = fill[k]
  PROVE  FilesInv'
<1> SUFFICES ASSUME "wiped" \notin marred'
             PROVE  /\ \A n \in 1 .. Len(log') : log'[n].file => log'[n].m \in att' \cup gone'
                    /\ \A k \in Msg : ref'[k] = "yes" => Item(k)' \in att' \cup gone'
  BY DEF FilesInv
<1>1. \A k \in Msg : fill'[k] = fill[k] => Item(k)' = Item(k)
  BY DEF Item
<1>2. QED
  BY <1>1 DEF FilesInv

LEMMA FilesStep ==
  ASSUME IngestType, IngestType', ThreadInv, FilesInv, [Next]_vars
  PROVE  FilesInv'
<1>1. ASSUME NEW m \in Msg, Posts(m) \/ Removes(m) \/ Handle(m) \/ Filled(m) \/ DeleteReads(m)
                            \/ DeleteRecords(m) \/ PushStarts(m)
      PROVE  FilesInv'
  <2>1. UNCHANGED <<att, log, ref, fill>>
    BY <1>1 DEF Posts, Removes, Handle, Filled, DeleteReads, DeleteRecords, PushStarts, disk, handlers
  <2>2. gone \subseteq gone'
    BY <1>1 DEF Posts, Removes, Handle, Filled, DeleteReads, DeleteRecords, PushStarts, slackSide
  <2>3. "wiped" \notin marred' => "wiped" \notin marred
    BY <1>1 DEF Posts, Removes, Handle, Filled, DeleteReads, DeleteRecords, PushStarts, Mar
  <2>4. QED
    BY <2>1, <2>2, <2>3, FilesFrame
<1>2. ASSUME NEW m \in Msg, Lists(m) PROVE FilesInv'
  <2>1. /\ UNCHANGED <<att, log, ref, gone, marred>> /\ pc[m] = "listing"
        /\ \A k \in Msg : k # m => fill'[k] = fill[k]
    BY <1>2 DEF Lists, disk, slackSide, IngestType
  <2>2. ref[m] = "none"
    BY <2>1, SavingFacts DEF Saving
  <2>3. QED
    BY <2>1, <2>2, FilesFrame
<1>3. ASSUME NEW m \in Msg, Fetch(m) PROVE FilesInv'
  <2>1. /\ UNCHANGED <<att, log, fill, gone, marred>> /\ ref' = [ref EXCEPT ![m] = "asked"]
    BY <1>3 DEF Fetch, slackSide
  <2>2. \A k \in Msg : ref'[k] = "yes" => ref[k] = "yes"
    BY <2>1 DEF IngestType
  <2>3. QED
    BY <2>1, <2>2, FilesFrame
<1>4. ASSUME NEW m \in Msg, Save(m) PROVE FilesInv'
  <2>1. UNCHANGED <<log, fill, gone, marred>> /\ ref[m] = "asked"
    BY <1>4 DEF Save, slackSide
  <2>2. CASE ref' = [ref EXCEPT ![m] = "no"] /\ att' = att
    <3>1. \A k \in Msg : ref'[k] = "yes" => ref[k] = "yes"
      BY <2>2 DEF IngestType
    <3>2. QED
      BY <2>1, <2>2, <3>1, FilesFrame
  <2>3. CASE ref' = [ref EXCEPT ![m] = "yes"] /\ att' = att \cup {Item(m)}
    <3> SUFFICES ASSUME "wiped" \notin marred
                 PROVE  /\ \A n \in 1 .. Len(log') : log'[n].file => log'[n].m \in att' \cup gone'
                        /\ \A k \in Msg : ref'[k] = "yes" => Item(k)' \in att' \cup gone'
      BY <2>1 DEF FilesInv
    <3>1. \A k \in Msg : Item(k)' = Item(k)
      BY <2>1 DEF Item
    <3>2. \A k \in Msg : ref'[k] = "yes" => k = m \/ ref[k] = "yes"
      BY <2>3 DEF IngestType
    <3>3. \A k \in Msg : ref'[k] = "yes" => Item(k)' \in att' \cup gone'
      BY <2>1, <2>3, <3>1, <3>2 DEF FilesInv
    <3>4. QED
      BY <2>1, <2>3, <3>3 DEF FilesInv
  <2>5. CASE ref' = [ref EXCEPT ![m] = "no"] /\ att' = att \cup {Item(m)}
    <3>1. \A k \in Msg : ref'[k] = "yes" => ref[k] = "yes"
      BY <2>5 DEF IngestType
    <3>2. QED
      BY <2>1, <2>5, <3>1, FilesFrame
  <2>4. QED
    BY <1>4, <2>2, <2>3, <2>5 DEF Save
<1>5. ASSUME NEW m \in Msg, Records(m) PROVE FilesInv'
  <2>1. /\ Len(log') = Len(log) + 1 /\ Len(log) \in Nat
        /\ \A i \in 1 .. Len(log) : i \in 1 .. Len(log') /\ log'[i] = log[i]
        /\ log'[Len(log) + 1] = [m |-> Item(m), file |-> ref[m] = "yes"]
        /\ \A k \in Msg : k # m => fill'[k] = fill[k] /\ pc'[k] = pc[k]
    BY <1>5, RecordsFacts
  <2>2. UNCHANGED <<att, gone, marred>> /\ ref' = [ref EXCEPT ![m] = "none"]
    BY <1>5 DEF Records, slackSide
  <2> SUFFICES ASSUME "wiped" \notin marred
               PROVE  /\ \A n \in 1 .. Len(log') : log'[n].file => log'[n].m \in att \cup gone
                      /\ \A k \in Msg : ref'[k] = "yes" => Item(k)' \in att \cup gone
    BY <2>2 DEF FilesInv
  <2>3. \A k \in Msg : ref'[k] = "yes" => k # m /\ ref[k] = "yes"
    BY <2>2 DEF IngestType
  <2>4. \A k \in Msg : k # m => Item(k)' = Item(k)
    BY <2>1 DEF Item
  <2>5. \A n \in 1 .. Len(log') : n \in 1 .. Len(log) \/ n = Len(log) + 1
    BY <2>1
  <2>6. log'[Len(log) + 1].file => log'[Len(log) + 1].m \in att \cup gone
    <3>1. log'[Len(log) + 1].m = Item(m)
      BY <2>1
    <3>2. CASE ref[m] = "yes"
      BY <3>1, <3>2 DEF FilesInv
    <3>3. CASE ref[m] # "yes"
      <4>1. log'[Len(log) + 1] = [m |-> Item(m), file |-> FALSE]
        BY <2>1, <3>3
      <4>2. QED
        BY <4>1
    <3>4. QED
      BY <3>2, <3>3
  <2>7. \A n \in 1 .. Len(log) : log'[n].file => log'[n].m \in att \cup gone
    BY <2>1 DEF FilesInv
  <2>8. \A n \in 1 .. Len(log') : log'[n].file => log'[n].m \in att \cup gone
    BY <2>5, <2>6, <2>7
  <2>9. \A k \in Msg : ref'[k] = "yes" => Item(k)' \in att \cup gone
    BY <2>3, <2>4 DEF FilesInv
  <2>10. QED
    BY <2>8, <2>9
<1>6. ASSUME NEW m \in Msg, DeleteUnlinks(m) PROVE FilesInv'
  <2>1. /\ UNCHANGED <<log, ref, fill, gone, marred>> /\ att \ {m} \subseteq att'
        /\ del[m] # "none"
    BY <1>6 DEF DeleteUnlinks, slackSide
  <2>2. m \in gone
    BY <2>1 DEF ThreadInv, HandlerInv, HandlerOk
  <2>3. QED
    BY <2>1, <2>2, FilesFrame
<1>7. CASE EditArrives \/ PushEnds \/ Wipe \/ WipeBox \/ SandboxMoves \/ UNCHANGED vars
  <2>1. UNCHANGED <<att, log, ref, fill>>
    BY <1>7 DEF EditArrives, PushEnds, Wipe, WipeBox, SandboxMoves, vars, disk, handlers
  <2>2. gone \subseteq gone'
    BY <1>7 DEF EditArrives, PushEnds, Wipe, WipeBox, SandboxMoves, vars, slackSide
  <2>3. "wiped" \notin marred' => "wiped" \notin marred
    BY <1>7 DEF EditArrives, PushEnds, Wipe, WipeBox, SandboxMoves, vars, Mar
  <2>4. QED
    BY <2>1, <2>2, <2>3, FilesFrame
<1>8. CASE WipeData
  <2> SUFFICES ASSUME "wiped" \notin marred'
               PROVE  /\ \A n \in 1 .. Len(log') : log'[n].file => log'[n].m \in att' \cup gone'
                      /\ \A k \in Msg : ref'[k] = "yes" => Item(k)' \in att' \cup gone'
    BY DEF FilesInv
  <2>1. log' = <<>> /\ ref' = ref /\ \A k \in Msg : Busy(k) => pc[k] = "heard"
    BY <1>8 DEF WipeData, handlers, Mar
  <2>2. \A k \in Msg : ref[k] = "none"
    BY <2>1, SavingFacts
  <2>3. QED
    BY <2>1, <2>2, EmptyFacts
<1>9. CASE Crash
  <2>1. UNCHANGED <<log, att, gone>> /\ \A k \in Msg : ref'[k] = "none"
    BY <1>9 DEF Crash, disk, slackSide
  <2>2. "wiped" \notin marred' => "wiped" \notin marred
    BY <1>9 DEF Crash, Mar
  <2>3. QED
    BY <2>1, <2>2, FilesFrame
<1>10. ASSUME NEW m \in Msg, Throws(m) PROVE FilesInv'
  <2>1. /\ UNCHANGED <<att, log, gone, marred>> /\ ref' = [ref EXCEPT ![m] = "none"]
        /\ fill' = [fill EXCEPT ![m] = <<>>]
    BY <1>10 DEF Throws, disk, slackSide
  <2>2. \A k \in Msg : ref'[k] = "yes" => ref[k] = "yes" /\ fill'[k] = fill[k]
    BY <2>1 DEF IngestType
  <2>3. QED
    BY <2>1, <2>2, FilesFrame
<1>11. QED
  BY <1>1, <1>2, <1>3, <1>4, <1>5, <1>6, <1>7, <1>8, <1>9, <1>10 DEF Next

\* The file of a message stays accounted for in a step that forgets no record and no
\* file in hand, gives nobody the message and moves its deletion no further.
LEMMA GoneFrame ==
  ASSUME IngestType, NEW x \in Msg, GoneOk(x),
         HasFile(x) => HasFile(x)', InHand(x) => HasFile(x)' \/ InHand(x)',
         Busy(x)' => Busy(x), \A k \in Msg : In(x, fill'[k]) => In(x, fill[k]),
         x \in att' => x \in att,
         del'[x] \in {"unlink", "record", "done"} => del'[x] = del[x]
  PROVE  GoneOk(x)'
<1>1. x \in att' => HasFile(x)' \/ InHand(x)'
  BY DEF GoneOk
<1>2. del'[x] \in {"unlink", "record", "done"} => ~Busy(x)' /\ \A k \in Msg : ~In(x, fill'[k])
  BY DEF GoneOk
<1>3. del'[x] \in {"record", "done"} => x \notin att'
  BY DEF GoneOk
<1>4. QED
  BY <1>1, <1>2, <1>3 DEF GoneOk

\* The same of a step that moves nothing else.
LEMMA GoneSame ==
  ASSUME IngestType, NEW x \in Msg, GoneOk(x), UNCHANGED <<fill, log, ref>>,
         Busy(x)' => Busy(x), x \in att' => x \in att,
         del'[x] \in {"unlink", "record", "done"} => del'[x] = del[x]
  PROVE  GoneOk(x)'
<1>1. HasFile(x) => HasFile(x)'
  BY DEF HasFile
<1>2. InHand(x) => InHand(x)'
  BY DEF InHand, Item
<1>3. \A k \in Msg : In(x, fill'[k]) => In(x, fill[k])
  OBVIOUS
<1>4. QED
  BY <1>1, <1>2, <1>3, GoneFrame

LEMMA GoneHandlers ==
  ASSUME IngestType, ThreadInv, NEW x \in Msg, GoneOk(x),
         NEW m \in Msg, Posts(m) \/ Handle(m) \/ Lists(m) \/ Filled(m)
  PROVE  GoneOk(x)'
<1>1. CASE Handle(m) \/ Filled(m)
  <2>1. UNCHANGED <<fill, log, ref, att, del>> /\ Busy(m)
    BY <1>1 DEF Handle, Filled, disk, Busy
  <2>2. \E v : pc' = [pc EXCEPT ![m] = v]
    BY <1>1 DEF Handle, Filled
  <2>3. Busy(x)' => Busy(x)
    BY <2>1, <2>2 DEF Busy, IngestType
  <2>4. QED
    BY <2>1, <2>3, GoneSame
<1>2. CASE Posts(m)
  <2>1. /\ UNCHANGED <<fill, log, ref, att, del>> /\ pc[m] = "none"
        /\ \A k \in Msg : k # m => pc'[k] = pc[k]
    BY <1>2 DEF Posts, disk, IngestType
  <2>2. del[m] = "none"
    BY <2>1 DEF ThreadInv, PostedInv, HandlerInv, HandlerOk
  <2>3. x # m => (Busy(x)' <=> Busy(x))
    BY <2>1 DEF Busy
  <2>4. CASE x # m
    BY <2>1, <2>3, <2>4, GoneSame
  <2>5. CASE x = m
    <3>1. (HasFile(x)' <=> HasFile(x)) /\ (InHand(x)' <=> InHand(x))
      BY <2>1 DEF HasFile, InHand, Item
    <3>2. del'[x] = "none" /\ att' = att
      BY <2>1, <2>2, <2>5
    <3>3. QED
      BY <3>1, <3>2 DEF GoneOk
  <2>6. QED
    BY <2>4, <2>5
<1>3. CASE Lists(m)
  <2>1. PICK page \in Seq(Msg) :
          /\ fill' = [fill EXCEPT ![m] = @ \o page]
          /\ \A n \in 1 .. Len(page) : \E i \in Page(m) : page[n] = posted[i]
    BY <1>3, ListsFacts
  <2>2. /\ UNCHANGED <<log, ref, att, del>> /\ pc[m] = "listing" /\ pc'[m] \in {"listing", "filling"}
        /\ \A k \in Msg : k # m => pc'[k] = pc[k] /\ fill'[k] = fill[k]
    BY <1>3 DEF Lists, disk, IngestType
  <2>3. Busy(x)' <=> Busy(x)
    BY <2>2 DEF Busy
  <2>4. ref[m] = "none"
    BY <2>2, SavingFacts DEF Saving
  <2>5. HasFile(x)' <=> HasFile(x)
    BY <2>2 DEF HasFile
  <2>6. InHand(x) => InHand(x)'
    <3>1. \A k \in Msg : k # m => Item(k)' = Item(k)
      BY <2>2 DEF Item
    <3>2. QED
      BY <2>2, <2>4, <3>1 DEF InHand
  <2>7. del[x] # "none" => ~In(x, page)
    <3>1. del[x] # "none" => x \in gone
      BY DEF ThreadInv, HandlerInv, HandlerOk
    <3>2. \A n \in 1 .. Len(page) : page[n] \notin gone
      BY <2>1 DEF Page
    <3>3. QED
      BY <3>1, <3>2 DEF In
  <2>8. fill[m] \in Seq(Msg) /\ fill'[m] = fill[m] \o page
    BY <2>1 DEF IngestType
  <2>9. In(x, fill'[m]) <=> In(x, fill[m]) \/ In(x, page)
    BY <2>8, ConcatFacts
  <2>10. ASSUME del[x] \in {"unlink", "record", "done"}, NEW k \in Msg
         PROVE  ~In(x, fill'[k])
    <3>0. ~In(x, fill[k])
      BY <2>10 DEF GoneOk
    <3>1. CASE k = m
      BY <2>7, <2>9, <2>10, <3>0, <3>1
    <3>2. CASE k # m
      BY <2>2, <3>0, <3>2
    <3>3. QED
      BY <3>1, <3>2
  <2>11. del' = del /\ att' = att
    BY <2>2
  <2>12. QED
    BY <2>3, <2>5, <2>6, <2>10, <2>11 DEF GoneOk
<1>4. QED
  BY <1>1, <1>2, <1>3

LEMMA GoneSaves ==
  ASSUME IngestType, ThreadInv, NEW x \in Msg, GoneOk(x), NEW m \in Msg, Save(m), x \notin stray'
  PROVE  GoneOk(x)'
<1>1. UNCHANGED <<fill, log, del, pc>> /\ ref[m] = "asked"
  BY DEF Save
<1>2. (HasFile(x)' <=> HasFile(x)) /\ (Busy(x)' <=> Busy(x)) /\ \A k \in Msg : Item(k)' = Item(k)
  BY <1>1 DEF HasFile, Busy, Item
<1>3. InHand(x) => InHand(x)'
  <2>1. \A k \in Msg : ref[k] = "yes" => ref'[k] = "yes"
    BY <1>1 DEF Save, IngestType
  <2>2. QED
    BY <1>2, <2>1 DEF InHand
<1>4. \A k \in Msg : In(x, fill'[k]) => In(x, fill[k])
  BY <1>1
<1>5. CASE x \in att' => x \in att
  BY <1>1, <1>2, <1>3, <1>4, <1>5, GoneFrame
<1>6. CASE x \in att' /\ x \notin att
  <2>1. x = Item(m) /\ ref' = [ref EXCEPT ![m] = "yes"]
    BY <1>6 DEF Save
  <2>2. InHand(x)'
    <3>1. ref'[m] = "yes" /\ Item(m)' = x
      BY <1>2, <2>1 DEF IngestType
    <3>2. QED
      BY <3>1 DEF InHand
  <2>3. Busy(m) /\ (Item(m) = m \/ In(Item(m), fill[m]))
    BY <1>1, SavingFacts
  <2>4. del[x] \notin {"unlink", "record", "done"}
    BY <2>1, <2>3 DEF GoneOk
  <2>5. del'[x] \notin {"unlink", "record", "done"}
    BY <1>1, <2>4
  <2>6. QED
    BY <2>2, <2>5 DEF GoneOk
<1>7. QED
  BY <1>5, <1>6

LEMMA GoneRecords ==
  ASSUME IngestType, ThreadInv, NEW x \in Msg, GoneOk(x), NEW m \in Msg, Records(m)
  PROVE  GoneOk(x)'
<1>1. /\ Len(log') = Len(log) + 1 /\ Len(log) \in Nat
      /\ \A i \in 1 .. Len(log) : i \in 1 .. Len(log') /\ log'[i] = log[i]
      /\ log'[Len(log) + 1] = [m |-> Item(m), file |-> ref[m] = "yes"]
      /\ \A k \in Msg : k # m => fill'[k] = fill[k] /\ pc'[k] = pc[k]
      /\ fill[m] = <<>> => fill' = fill /\ pc'[m] = "done"
      /\ fill[m] # <<>> => fill'[m] = Tail(fill[m]) /\ pc' = pc
  BY RecordsFacts
<1>2. UNCHANGED <<att, del>> /\ ref' = [ref EXCEPT ![m] = "none"]
  BY DEF Records
<1>3. ASSUME HasFile(x) PROVE HasFile(x)'
  <2>1. PICK n \in 1 .. Len(log) : log[n] = [m |-> x, file |-> TRUE]
    BY <1>3 DEF HasFile
  <2>2. n \in 1 .. Len(log') /\ log'[n] = [m |-> x, file |-> TRUE]
    BY <1>1, <2>1
  <2>3. QED
    BY <2>2 DEF HasFile
<1>4. ASSUME InHand(x) PROVE HasFile(x)' \/ InHand(x)'
  <2>1. PICK k \in Msg : ref[k] = "yes" /\ Item(k) = x
    BY <1>4 DEF InHand
  <2>2. CASE k = m
    <3>1. log'[Len(log) + 1] = [m |-> x, file |-> TRUE]
      BY <1>1, <2>1, <2>2
    <3>2. Len(log) + 1 \in 1 .. Len(log')
      BY <1>1
    <3>3. QED
      BY <3>1, <3>2 DEF HasFile
  <2>3. CASE k # m
    <3>1. Item(k)' = Item(k) /\ ref'[k] = "yes"
      BY <1>1, <1>2, <2>1, <2>3 DEF Item, IngestType
    <3>2. QED
      BY <2>1, <3>1 DEF InHand
  <2>4. QED
    BY <2>2, <2>3
<1>5. Busy(x)' => Busy(x)
  <2>1. pc'[x] = pc[x] \/ pc'[x] = "done"
    BY <1>1
  <2>2. QED
    BY <2>1 DEF Busy
<1>6. ASSUME NEW k \in Msg, In(x, fill'[k]) PROVE In(x, fill[k])
  <2>1. CASE k # m \/ fill[m] = <<>>
    BY <1>1, <1>6, <2>1
  <2>2. CASE k = m /\ fill[m] # <<>>
    <3>1. In(x, fill[m]) <=> x = Head(fill[m]) \/ In(x, Tail(fill[m]))
      BY <2>2, TailFill DEF IngestType
    <3>2. QED
      BY <1>1, <1>6, <2>2, <3>1
  <2>3. QED
    BY <2>1, <2>2
<1>7. del' = del /\ att' = att
  BY <1>2
<1>8. QED
  BY <1>3, <1>4, <1>5, <1>6, <1>7, GoneFrame

\* A deletion that does not come too early finds the file, or there is none.
LEMMA GoneReads ==
  ASSUME IngestType, ThreadInv, NEW x \in Msg, GoneOk(x), NEW m \in Msg, DeleteReads(m),
         x \notin stray'
  PROVE  GoneOk(x)'
<1>1. /\ UNCHANGED <<fill, log, ref, pc, att>>
      /\ \A k \in Msg : k # m => del'[k] = del[k]
      /\ del'[m] = IF m \in Logged /\ FirstRecord(m).file THEN "unlink" ELSE "record"
  BY DEF DeleteReads, disk, IngestType
<1>2. CASE x # m
  <2>1. Busy(x)' <=> Busy(x)
    BY <1>1 DEF Busy
  <2>2. del'[x] = del[x]
    BY <1>1, <1>2
  <2>3. QED
    BY <1>1, <2>1, <2>2, GoneSame
<1>3. CASE x = m
  <2>1. ~TooEarly(m)
    BY <1>3 DEF DeleteReads
  <2>2. ~Busy(m) /\ \A k \in Msg : Busy(k) => m \notin Range(fill[k])
    BY <2>1 DEF TooEarly
  <2>3. \A k \in Msg : m \in Range(fill[k]) <=> In(m, fill[k])
    <3>1. \A k \in Msg : fill[k] \in Seq(Msg)
      BY DEF IngestType
    <3>2. QED
      BY <3>1, InRange
  <2>4. ASSUME NEW k \in Msg, In(m, fill[k]) PROVE FALSE
    <3>1. fill[k] # <<>>
      BY <2>4, EmptyFacts
    <3>2. Busy(k)
      BY <3>1 DEF ThreadInv, HandlerInv, HandlerOk, Busy
    <3>3. QED
      BY <2>2, <2>3, <2>4, <3>2
  <2>5. ~InHand(m)
    <3> SUFFICES ASSUME NEW k \in Msg, ref[k] = "yes", Item(k) = m PROVE FALSE
      BY DEF InHand
    <3>1. Busy(k) /\ (Item(k) = k \/ In(Item(k), fill[k]))
      BY SavingFacts
    <3>2. QED
      BY <2>2, <2>4, <3>1
  <2>6. ASSUME m \in att PROVE m \in Logged /\ FirstRecord(m).file
    <3>1. PICK n \in 1 .. Len(log) : log[n] = [m |-> m, file |-> TRUE]
      BY <1>3, <2>5, <2>6 DEF GoneOk, HasFile
    <3>2. n \in DOMAIN log /\ log[n].m = m /\ log[n].file
      BY <3>1 DEF IngestType
    <3>3. FirstRecord(m).file
      BY <2>1, <3>2 DEF TooEarly
    <3>4. Recorded(m)
      BY <3>1, <3>2 DEF Recorded
    <3>5. QED
      BY <3>3, <3>4, LoggedRecorded
  <2>7. att' = att /\ fill' = fill /\ (Busy(m)' <=> Busy(m)) /\ (HasFile(m)' <=> HasFile(m))
        /\ (InHand(m)' <=> InHand(m))
    BY <1>1 DEF Busy, HasFile, InHand, Item
  <2>8. m \in att => del'[m] = "unlink"
    BY <1>1, <2>6
  <2>9. m \in att' => HasFile(m)' \/ InHand(m)'
    BY <1>3, <2>7 DEF GoneOk
  <2>10. ~Busy(m)' /\ \A k \in Msg : ~In(m, fill'[k])
    BY <2>2, <2>4, <2>7
  <2>11. del'[m] \in {"record", "done"} => m \notin att'
    BY <2>7, <2>8
  <2>12. QED
    BY <1>3, <2>9, <2>10, <2>11 DEF GoneOk
<1>4. QED
  BY <1>2, <1>3

LEMMA GoneUnlinks ==
  ASSUME IngestType, NEW x \in Msg, GoneOk(x), NEW m \in Msg, DeleteUnlinks(m) \/ DeleteRecords(m),
         x \notin stray'
  PROVE  GoneOk(x)'
<1>1. UNCHANGED <<fill, log, ref, pc>>
  BY DEF DeleteUnlinks, DeleteRecords
<1>2. \/ del[m] = "unlink" /\ (x = m => x \notin att') /\ (x \in att' => x \in att)
      \/ del[m] = "record" /\ att' = att
  BY DEF DeleteUnlinks, DeleteRecords
<1>3. /\ x # m => del'[x] = del[x]
      /\ x = m => del[x] \in {"unlink", "record"}
  BY DEF DeleteUnlinks, DeleteRecords, IngestType
<1>4. (HasFile(x)' <=> HasFile(x)) /\ (InHand(x)' <=> InHand(x)) /\ (Busy(x)' <=> Busy(x))
  BY <1>1 DEF HasFile, InHand, Item, Busy
<1>5. fill' = fill
  BY <1>1
<1>6. x \in att' => HasFile(x)' \/ InHand(x)'
  BY <1>2, <1>4 DEF GoneOk
<1>7. del'[x] \in {"unlink", "record", "done"} => ~Busy(x)' /\ \A k \in Msg : ~In(x, fill'[k])
  BY <1>3, <1>4, <1>5 DEF GoneOk
<1>8. del'[x] \in {"record", "done"} => x \notin att'
  BY <1>2, <1>3 DEF GoneOk
<1>9. QED
  BY <1>6, <1>7, <1>8 DEF GoneOk

\* A handler that throws, or all of them, leave the file they have in hand to nobody.
LEMMA GoneThrows ==
  ASSUME IngestType, NEW x \in Msg, GoneOk(x), x \notin stray',
         Crash \/ \E m \in Msg : Throws(m)
  PROVE  GoneOk(x)'
<1>1. UNCHANGED <<log, att>> /\ (del'[x] \in {"unlink", "record", "done"} => del'[x] = del[x])
  BY DEF Crash, Throws, disk, IngestType
<1>2. HasFile(x) => HasFile(x)'
  BY <1>1 DEF HasFile
<1>3. CASE Crash
  <2>1. ~InHand(x)
    <3> SUFFICES ASSUME NEW k \in Msg, ref[k] = "yes", Item(k) = x PROVE FALSE
      BY DEF InHand
    <3>1. x \in InHandOf(k)
      BY DEF InHandOf
    <3>2. QED
      BY <1>3, <3>1 DEF Crash
  <2>2. ~Busy(x)'
    BY <1>3 DEF Crash, Busy
  <2>3. \A k \in Msg : ~In(x, fill'[k])
    BY <1>3, EmptyFacts DEF Crash
  <2>4. QED
    BY <1>1, <1>2, <2>1, <2>2, <2>3, GoneFrame
<1>4. ASSUME NEW m \in Msg, Throws(m) PROVE GoneOk(x)'
  <2>1. /\ ref' = [ref EXCEPT ![m] = "none"] /\ fill' = [fill EXCEPT ![m] = <<>>]
        /\ pc' = [pc EXCEPT ![m] = "unheard"] /\ x \notin InHandOf(m)
    BY <1>4 DEF Throws
  <2>2. InHand(x) => InHand(x)'
    <3> SUFFICES ASSUME NEW k \in Msg, ref[k] = "yes", Item(k) = x PROVE InHand(x)'
      BY DEF InHand
    <3>1. k # m
      BY <2>1 DEF InHandOf
    <3>2. ref'[k] = "yes" /\ Item(k)' = Item(k)
      BY <2>1, <3>1 DEF Item, IngestType
    <3>3. QED
      BY <3>2 DEF InHand
  <2>3. Busy(x)' => Busy(x)
    BY <2>1 DEF Busy, IngestType
  <2>4. ASSUME NEW k \in Msg, In(x, fill'[k]) PROVE In(x, fill[k])
    <3>1. CASE k = m
      <4>1. fill'[k] = <<>>
        BY <2>1, <3>1 DEF IngestType
      <4>2. QED
        BY <2>4, <4>1, EmptyFacts
    <3>2. CASE k # m
      BY <2>1, <2>4, <3>2 DEF IngestType
    <3>3. QED
      BY <3>1, <3>2
  <2>5. QED
    BY <1>1, <1>2, <2>2, <2>3, <2>4, GoneFrame
<1>5. QED
  BY <1>3, <1>4

LEMMA StrayGrows ==
  ASSUME [Next]_vars
  PROVE  stray \subseteq stray'
<1>1. ASSUME NEW m \in Msg, \/ Posts(m) \/ Removes(m) \/ Handle(m) \/ Lists(m) \/ Fetch(m) \/ Save(m)
                            \/ Records(m) \/ Filled(m) \/ Throws(m) \/ DeleteReads(m)
                            \/ DeleteUnlinks(m) \/ DeleteRecords(m) \/ PushStarts(m)
      PROVE  stray \subseteq stray'
  BY <1>1 DEF Posts, Removes, Handle, Lists, Fetch, Save, Records, Filled, Throws, DeleteReads,
              DeleteUnlinks, DeleteRecords, PushStarts
<1>2. ASSUME \/ EditArrives \/ PushEnds \/ Wipe \/ WipeData \/ WipeBox \/ SandboxMoves \/ Crash
             \/ UNCHANGED vars
      PROVE  stray \subseteq stray'
  BY <1>2 DEF EditArrives, PushEnds, Wipe, WipeData, WipeBox, SandboxMoves, Crash, vars
<1>3. QED
  BY <1>1, <1>2 DEF Next

LEMMA GoneStep ==
  ASSUME IngestType, ThreadInv, GoneInv, [Next]_vars
  PROVE  GoneInv'
<1> SUFFICES ASSUME NEW x \in Msg, x \notin stray' PROVE GoneOk(x)'
  BY DEF GoneInv
<1>0. GoneOk(x)
  BY StrayGrows DEF GoneInv
<1>1. ASSUME NEW m \in Msg, Posts(m) \/ Handle(m) \/ Lists(m) \/ Filled(m) PROVE GoneOk(x)'
  BY <1>0, <1>1, GoneHandlers
<1>2. ASSUME NEW m \in Msg, Save(m) PROVE GoneOk(x)'
  BY <1>0, <1>2, GoneSaves
<1>3. ASSUME NEW m \in Msg, Records(m) PROVE GoneOk(x)'
  BY <1>0, <1>3, GoneRecords
<1>4. ASSUME NEW m \in Msg, DeleteReads(m) PROVE GoneOk(x)'
  BY <1>0, <1>4, GoneReads
<1>5. ASSUME NEW m \in Msg, DeleteUnlinks(m) \/ DeleteRecords(m) PROVE GoneOk(x)'
  BY <1>0, <1>5, GoneUnlinks
<1>6. ASSUME Crash \/ \E m \in Msg : Throws(m) PROVE GoneOk(x)'
  BY <1>0, <1>6, GoneThrows
<1>7. ASSUME NEW m \in Msg, Removes(m) PROVE GoneOk(x)'
  <2>1. UNCHANGED <<pc, fill, log, ref, att>> /\ del' = [del EXCEPT ![m] = "heard"]
    BY <1>7 DEF Removes, disk
  <2>2. del'[x] \in {"unlink", "record", "done"} => del'[x] = del[x]
    BY <2>1 DEF IngestType
  <2>3. Busy(x)' <=> Busy(x)
    BY <2>1 DEF Busy
  <2>4. QED
    BY <1>0, <2>1, <2>2, <2>3, GoneSame
<1>8. ASSUME NEW m \in Msg, Fetch(m) PROVE GoneOk(x)'
  <2>1. /\ UNCHANGED <<pc, fill, log, att, del>>
        /\ ref' = [ref EXCEPT ![m] = "asked"] /\ ref[m] = "none"
    BY <1>8 DEF Fetch
  <2>2. \A k \in Msg : ref[k] = "yes" => ref'[k] = "yes"
    BY <2>1 DEF IngestType
  <2>3. (HasFile(x)' <=> HasFile(x)) /\ (Busy(x)' <=> Busy(x)) /\ \A k \in Msg : Item(k)' = Item(k)
    BY <2>1 DEF HasFile, Busy, Item
  <2>4. InHand(x) => InHand(x)'
    BY <2>2, <2>3 DEF InHand
  <2>5. att' = att /\ fill' = fill /\ del' = del
    BY <2>1
  <2>6. QED
    BY <1>0, <2>3, <2>4, <2>5, GoneFrame
<1>9. ASSUME NEW m \in Msg, PushStarts(m) PROVE GoneOk(x)'
  <2>1. UNCHANGED <<pc, fill, log, ref, att, del>>
    BY <1>9 DEF PushStarts, handlers, disk
  <2>2. Busy(x)' <=> Busy(x)
    BY <2>1 DEF Busy
  <2>3. QED
    BY <1>0, <2>1, <2>2, GoneSame
<1>10. CASE EditArrives \/ PushEnds \/ Wipe \/ WipeBox \/ SandboxMoves \/ UNCHANGED vars
  <2>1. UNCHANGED <<pc, fill, log, ref, att, del>>
    BY <1>10 DEF EditArrives, PushEnds, Wipe, WipeBox, SandboxMoves, vars, handlers, disk
  <2>2. Busy(x)' <=> Busy(x)
    BY <2>1 DEF Busy
  <2>3. QED
    BY <1>0, <2>1, <2>2, GoneSame
<1>11. CASE WipeData
  <2>1. att' = {} /\ fill' = fill /\ del' = del /\ pc' = pc
    BY <1>11 DEF WipeData, handlers
  <2>2. Busy(x)' <=> Busy(x)
    BY <2>1 DEF Busy
  <2>3. del'[x] \in {"unlink", "record", "done"} => ~Busy(x)' /\ \A k \in Msg : ~In(x, fill'[k])
    BY <1>0, <2>1, <2>2 DEF GoneOk
  <2>4. x \notin att'
    BY <2>1
  <2>5. QED
    BY <2>3, <2>4 DEF GoneOk
<1>12. QED
  BY <1>1, <1>2, <1>3, <1>4, <1>5, <1>6, <1>7, <1>8, <1>9, <1>10, <1>11 DEF Next

LEMMA FilesInit == Init => FilesInv /\ GoneInv
<1> SUFFICES ASSUME Init PROVE FilesInv /\ GoneInv
  OBVIOUS
<1>1. /\ log = <<>> /\ att = {}
      /\ \A k \in Msg : ref[k] = "none" /\ del[k] = "none"
  BY DEF Init
<1>2. FilesInv
  BY <1>1, EmptyFacts DEF FilesInv
<1>3. GoneInv
  BY <1>1 DEF GoneInv, GoneOk
<1>4. QED
  BY <1>2, <1>3

\* A recorded file is on the disk unless its message was deleted or a /delete took
\* the directory away under a handler; and once the deletion of a message is handled
\* its file is off the disk, whoever downloads, records, throws or dies in between,
\* but for the messages in stray: a file written in part, a handler that threw or
\* died with the file in hand, a deletion that came before the record or met one
\* without the file, an unlink that failed (downloadFiles and
\* deleteAttachmentsForSlackTs, persistence/attachments.ts; handleDelete,
\* runtime/handler.ts).
THEOREM FilesMatchRecords == Spec => []FilesFollowRecords
<1>1. Init => FilesInv /\ GoneInv
  BY FilesInit
<1>2. /\ ReachInv /\ ReachInv' /\ FilesInv /\ GoneInv /\ [Next]_vars
      => FilesInv' /\ GoneInv'
  BY FilesStep, GoneStep DEF ReachInv
<1>3. ASSUME ReachInv, FilesInv, GoneInv PROVE FilesFollowRecords
  <2>1. DOMAIN log = 1 .. Len(log)
    BY <1>3 DEF ReachInv, IngestType
  <2>2. "wiped" \notin marred => \A n \in 1 .. Len(log) : log[n].file => log[n].m \in att \cup gone
    BY <1>3 DEF FilesInv
  <2>3. FilesReadable
    BY <2>1, <2>2 DEF FilesReadable
  <2>4. \A x \in Msg : x \notin stray /\ del[x] \in {"record", "done"} => x \notin att
    BY <1>3 DEF GoneInv, GoneOk
  <2>5. DeletedFilesGo
    BY <2>4 DEF DeletedFilesGo
  <2>6. QED
    BY <2>3, <2>5 DEF FilesFollowRecords
<1>4. QED
  BY <1>1, <1>2, <1>3, Reachable, PTL DEF Spec

-----------------------------------------------------------------------------
(* The files in the sandbox.                                               *)

\* What is remembered, or about to be, is there; while a /delete removes the
\* sandbox nothing is remembered.
MirrorInv ==
  marred \cap {"overlapped", "moved"} = {} =>
    /\ done \subseteq box
    /\ push.kept => push.f \in box
    /\ "box" \in wipe => done = {} /\ ~push.kept

LEMMA MirrorStep ==
  ASSUME IngestType, MirrorInv, [Next]_vars
  PROVE  MirrorInv'
<1>0. /\ \A m \in Msg : PushStarts(m) => marred \subseteq marred'
      /\ WipeData \/ SandboxMoves \/ Crash => marred \subseteq marred'
  BY DEF PushStarts, WipeData, SandboxMoves, Crash, Mar
<1>1. ASSUME marred \subseteq marred', UNCHANGED <<done, push, box>>, wipe' \subseteq wipe
      PROVE  MirrorInv'
  BY <1>1 DEF MirrorInv
<1>2. ASSUME NEW m \in Msg, \/ Posts(m) \/ Removes(m) \/ Handle(m) \/ Lists(m) \/ Fetch(m) \/ Save(m)
                            \/ Records(m) \/ Filled(m) \/ Throws(m) \/ DeleteReads(m)
                            \/ DeleteUnlinks(m) \/ DeleteRecords(m)
      PROVE  MirrorInv'
  <2>1. UNCHANGED <<done, push, box, wipe>>
    BY <1>2 DEF Posts, Removes, Handle, Lists, Fetch, Save, Records, Filled, Throws, DeleteReads,
                DeleteUnlinks, DeleteRecords, mirror
  <2>2. marred \subseteq marred'
    BY <1>2 DEF Posts, Removes, Handle, Lists, Fetch, Save, Records, Filled, Throws, DeleteReads,
                DeleteUnlinks, DeleteRecords, Mar
  <2>3. QED
    BY <1>1, <2>1, <2>2
<1>3. ASSUME NEW m \in Msg, PushStarts(m) PROVE MirrorInv'
  <2> SUFFICES ASSUME marred' \cap {"overlapped", "moved"} = {}
               PROVE  /\ done' \subseteq box' /\ (push'.kept => push'.f \in box')
                      /\ "box" \in wipe' => done' = {} /\ ~push'.kept
    BY DEF MirrorInv
  <2>1. /\ UNCHANGED <<done, wipe>> /\ box' = box \cup {m}
        /\ push' = [f |-> m, kept |-> TRUE] /\ "box" \notin wipe /\ marred \subseteq marred'
    BY <1>3 DEF PushStarts, Mar
  <2>2. QED
    BY <2>1 DEF MirrorInv
<1>4. CASE PushEnds
  <2> SUFFICES ASSUME marred' \cap {"overlapped", "moved"} = {}
               PROVE  /\ done' \subseteq box' /\ (push'.kept => push'.f \in box')
                      /\ "box" \in wipe' => done' = {} /\ ~push'.kept
    BY DEF MirrorInv
  <2>1. /\ UNCHANGED <<box, wipe, marred>> /\ push' = NoPush
        /\ done' = IF push.kept THEN done \cup {push.f} ELSE done
    BY <1>4 DEF PushEnds
  <2>2. ~push'.kept
    BY <2>1 DEF NoPush
  <2>3. QED
    BY <2>1, <2>2 DEF MirrorInv
<1>5. CASE Wipe
  <2>1. UNCHANGED <<box, marred>> /\ done' = {} /\ ~push'.kept
    BY <1>5 DEF Wipe, IngestType
  <2>2. QED
    BY <2>1 DEF MirrorInv
<1>6. CASE WipeData \/ EditArrives \/ UNCHANGED vars
  <2>1. /\ UNCHANGED <<done, push, box>> /\ wipe' \subseteq wipe
    BY <1>6 DEF WipeData, EditArrives, vars, mirror
  <2>2. marred \subseteq marred'
    BY <1>6 DEF WipeData, EditArrives, vars, Mar
  <2>3. QED
    BY <1>1, <2>1, <2>2
<1>7. CASE WipeBox
  <2>1. /\ UNCHANGED <<done, push, marred>> /\ box' = {} /\ "box" \in wipe /\ wipe' = wipe \ {"box"}
    BY <1>7 DEF WipeBox
  <2>2. QED
    BY <2>1 DEF MirrorInv
<1>8. CASE SandboxMoves
  <2>1. "moved" \in marred'
    BY <1>8 DEF SandboxMoves, Mar
  <2>2. QED
    BY <2>1 DEF MirrorInv
<1>9. CASE Crash
  <2>1. done' = {} /\ push' = NoPush /\ wipe' = {}
    BY <1>9 DEF Crash
  <2>2. ~push'.kept
    BY <2>1 DEF NoPush
  <2>3. QED
    BY <2>1, <2>2 DEF MirrorInv
<1>10. QED
  BY <1>2, <1>3, <1>4, <1>5, <1>6, <1>7, <1>8, <1>9 DEF Next

\* What the process remembers as pushed is in the sandbox, over a /delete and the
\* next life of the thread, whatever is pushed, crashes or is wiped, unless a push
\* began while a /delete was removing the sandbox, or that was replaced (syncAttachmentsToSandbox,
\* sandbox/index.ts).
THEOREM MirrorIsTrue == Spec => []MirrorTrue
<1>1. Init => MirrorInv
  <2> SUFFICES ASSUME Init PROVE MirrorInv
    OBVIOUS
  <2>1. done = {} /\ push = NoPush /\ wipe = {}
    BY DEF Init
  <2>2. ~push.kept
    BY <2>1 DEF NoPush
  <2>3. QED
    BY <2>1, <2>2 DEF MirrorInv
<1>2. ReachInv /\ MirrorInv /\ [Next]_vars => MirrorInv'
  BY MirrorStep DEF ReachInv
<1>3. MirrorInv => MirrorTrue
  BY DEF MirrorInv, MirrorTrue
<1>4. QED
  BY <1>1, <1>2, <1>3, Reachable, PTL DEF Spec
============================================================================
