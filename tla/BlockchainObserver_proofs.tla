------------------------ MODULE BlockchainObserver_proofs ------------------------
(* Proofs about the observer of the chain: what it reports is in order while one *)
(* loop runs, and complete while no two blocks are mined during a tick.          *)
EXTENDS BlockchainObserver, SequenceTheorems, TLAPS

(* A tick awaits the logs of a filter, or the number.                            *)
FetchIsSound ==
    \A l \in Loops :
        /\ loop[l] = "tick" => fetch[l].type \in Type \cup {"number"}
        /\ fetch[l].type \in Type => fetch[l].rest # <<>>
        /\ loop[l] # "tick" => pace[l] = 0

(* Emitters have different keys, and so have those that a tick asks for.         *)
Different(s) == \A i, j \in DOMAIN s : s[i] = s[j] => i = j
NoFilterTwice == Different(filters) /\ \A l \in Loops : Different(fetch[l].rest)

HistoryIsSound ==
    /\ since \in [Filter -> 0..height] /\ pace \in [Loops -> 0..height]
    /\ crowded \in BOOLEAN /\ doubled \in BOOLEAN
    /\ ~crowded => \A l \in Loops : pace[l] <= 1
    /\ \A asked \in starting : watching <= asked

Elements(s) == {s[i] : i \in DOMAIN s}
(* Whether the tick of l has still to ask for the events t of f.                 *)
StillToAsk(l, f, t) ==
    \/ fetch[l].type = t /\ f \in Elements(fetch[l].rest)
    \/ fetch[l].type = "KeyAdded" /\ t = "KeyRemoved"

(* What a tick has asked for is reported up to the block at which it began.      *)
Expected(f, t, b) == b > since[f] /\ b > watching /\ Matches(f, t, b)
TickReports(l) ==
    \A i \in DOMAIN filters : \A t \in Type, b \in 1..(height - pace[l]) :
        Expected(filters[i], t, b) /\ ~StillToAsk(l, filters[i], t)
            => <<filters[i], t, b>> \in reported
TicksReport == ~crowded => \A l \in Loops : loop[l] = "tick" => TickReports(l)

(* While one loop runs, what it is still to ask for was not reported for a block *)
(* after the last one seen; a start begins after all that was reported.          *)
OneLoopInOrder ==
    ~doubled =>
        /\ \A l, m \in Live : l = m
        /\ starting # {} => Live = {}
        /\ \A asked \in starting, r \in reported : r[3] <= asked
        /\ \A l \in Live, r \in reported :
              loop[l] = "timer" \/ StillToAsk(l, r[1], r[2]) => r[3] <= lastBlock

IInv ==
    /\ TypeOK /\ FetchIsSound /\ NoFilterTwice /\ HistoryIsSound
    /\ NothingMissed /\ TicksReport /\ OneLoopInOrder

--------------------------------------------------------------------------------
Fetch == [type : Type \cup {"number", "none"}, rest : Seq(Filter)]

(* A tick that begins a type asks for every filter there is.                     *)
LEMMA FetchOfIsSound ==
    ASSUME filters \in Seq(Filter), Different(filters), NEW t \in Type
    PROVE  /\ FetchOf(t) \in Fetch /\ FetchOf(t).type \in Type \cup {"number"}
           /\ FetchOf(t).type \in Type => FetchOf(t).rest # <<>>
           /\ Different(FetchOf(t).rest)
           /\ filters = <<>> => FetchOf(t).type = "number"
           /\ filters # <<>> => FetchOf(t).type = t /\ FetchOf(t).rest = filters
<1>1. <<>> \in Seq(Filter)
  OBVIOUS
<1>2. CASE filters = <<>>
  <2>1. FetchOf(t) = [type |-> "number", rest |-> <<>>]
    BY <1>2 DEF FetchOf, AskNumber
  <2>2. QED
    BY <1>1, <1>2, <2>1 DEF Fetch, Type, Different
<1>3. CASE filters # <<>>
  <2>1. FetchOf(t) = [type |-> t, rest |-> filters]
    BY <1>3 DEF FetchOf
  <2>2. QED
    BY <1>3, <2>1 DEF Fetch
<1>4. QED
  BY <1>2, <1>3

(* The rest of a sequence without repetition is without its head.                *)
LEMMA TailOfDifferent ==
    ASSUME NEW S, NEW s \in Seq(S), s # <<>>, Len(s) > 1, Different(s)
    PROVE  /\ Tail(s) \in Seq(S) /\ Tail(s) # <<>> /\ Different(Tail(s))
           /\ Elements(Tail(s)) = Elements(s) \ {Head(s)}
<1>1. PICK n \in Nat : n = Len(s)
  BY LenProperties
<1>2. PICK t : t = Tail(s)
  OBVIOUS
<1>3. /\ t \in Seq(S) /\ DOMAIN t = 1..(n - 1) /\ \A i \in 1..(n - 1) : t[i] = s[i + 1]
      /\ DOMAIN s = 1..n /\ Head(s) = s[1] /\ n > 1
  <2>1. t \in Seq(S) /\ Len(t) = n - 1 /\ \A i \in 1..Len(t) : t[i] = s[i + 1]
    BY <1>1, <1>2, HeadTailProperties
  <2>2. DOMAIN t = 1..Len(t) /\ DOMAIN s = 1..n /\ Head(s) = s[1]
    BY <1>1, <2>1, LenProperties
  <2>3. QED
    BY <1>1, <2>1, <2>2
<1>4. t # <<>>
  <2>1. 1 \in DOMAIN t
    BY <1>3
  <2>2. QED
    BY <2>1
<1>5. Different(t)
  <2>1. ASSUME NEW i \in DOMAIN t, NEW j \in DOMAIN t, t[i] = t[j]
        PROVE  i = j
    <3>1. /\ i \in 1..(n - 1) /\ j \in 1..(n - 1)
          /\ i + 1 \in DOMAIN s /\ j + 1 \in DOMAIN s /\ s[i + 1] = s[j + 1]
      BY <1>3, <2>1
    <3>2. i + 1 = j + 1
      BY <3>1 DEF Different
    <3>3. QED
      BY <3>1, <3>2
  <2>2. QED
    BY <2>1 DEF Different
<1>6. ASSUME NEW e \in Elements(t)
      PROVE  e \in Elements(s) /\ e # Head(s)
  <2>1. PICK i \in 1..(n - 1) : e = s[i + 1]
    BY <1>3 DEF Elements
  <2>2. i + 1 \in DOMAIN s /\ 1 \in DOMAIN s /\ i + 1 # 1
    BY <1>3, <2>1
  <2>3. s[i + 1] # s[1]
    BY <2>2 DEF Different
  <2>4. QED
    BY <1>3, <2>1, <2>2, <2>3 DEF Elements
<1>7. ASSUME NEW e \in Elements(s), e # Head(s)
      PROVE  e \in Elements(t)
  <2>1. PICK i \in 1..n : e = s[i]
    BY <1>3 DEF Elements
  <2>2. i # 1
    BY <1>3, <1>7, <2>1
  <2>3. i - 1 \in 1..(n - 1) /\ (i - 1) + 1 = i
    BY <2>1, <2>2
  <2>4. t[i - 1] = e /\ i - 1 \in DOMAIN t
    BY <1>3, <2>1, <2>3
  <2>5. QED
    BY <2>4 DEF Elements
<1>8. QED
  BY <1>2, <1>3, <1>4, <1>5, <1>6, <1>7

LEMMA LastOne ==
    ASSUME NEW S, NEW s \in Seq(S), s # <<>>, ~(Len(s) > 1)
    PROVE  \A e \in Elements(s) : e = Head(s)
<1>1. PICK n \in Nat : n = Len(s)
  BY LenProperties
<1>2. DOMAIN s = 1..n /\ Head(s) = s[1] /\ n <= 1
  BY <1>1, LenProperties
<1>3. QED
  BY <1>2 DEF Elements

(* After an answer the tick asks for the rest, then for the second type.         *)
LEMMA AskNextIsSound ==
    ASSUME filters \in Seq(Filter), Different(filters), NEW f \in Fetch, f.type \in Type,
           f.rest # <<>>, Different(f.rest)
    PROVE  /\ AskNext(f) \in Fetch /\ AskNext(f).type \in Type \cup {"number"}
           /\ AskNext(f).type \in Type => AskNext(f).rest # <<>>
           /\ Different(AskNext(f).rest)
           /\ \/ /\ AskNext(f).type = f.type
                 /\ Elements(AskNext(f).rest) = Elements(f.rest) \ {Head(f.rest)}
              \/ /\ Elements(f.rest) = {Head(f.rest)}
                 /\ f.type = "KeyAdded" /\ AskNext(f) = FetchOf("KeyRemoved")
              \/ /\ Elements(f.rest) = {Head(f.rest)}
                 /\ f.type = "KeyRemoved" /\ AskNext(f) = AskNumber
<1>0. f.rest \in Seq(Filter)
  BY DEF Fetch
<1>1. CASE Len(f.rest) > 1
  <2> DEFINE g == AskNext(f)
  <2>1. g = [f EXCEPT !.rest = Tail(f.rest)]
    BY <1>1 DEF AskNext
  <2>2. /\ Tail(f.rest) \in Seq(Filter) /\ Tail(f.rest) # <<>> /\ Different(Tail(f.rest))
        /\ Elements(Tail(f.rest)) = Elements(f.rest) \ {Head(f.rest)}
    BY <1>0, <1>1, TailOfDifferent
  <2>3. g.type = f.type /\ g.rest = Tail(f.rest) /\ g \in Fetch
    BY <2>1, <2>2 DEF Fetch
  <2>4. QED
    BY <2>2, <2>3
<1>2. CASE ~(Len(f.rest) > 1)
  <2>1. Elements(f.rest) = {Head(f.rest)}
    <3>1. \A e \in Elements(f.rest) : e = Head(f.rest)
      BY <1>0, <1>2, LastOne
    <3>2. 1 \in DOMAIN f.rest
      BY <1>0, LenProperties, EmptySeq
    <3>3. QED
      BY <3>1, <3>2 DEF Elements
  <2>2. CASE f.type = "KeyAdded"
    <3>1. AskNext(f) = FetchOf("KeyRemoved")
      BY <1>2, <2>2 DEF AskNext
    <3>2. QED
      BY <2>1, <2>2, <3>1, FetchOfIsSound DEF Type
  <2>3. CASE f.type = "KeyRemoved"
    <3>1. AskNext(f) = AskNumber
      BY <1>2, <2>3 DEF AskNext
    <3>2. AskNumber \in Fetch /\ AskNumber.type = "number" /\ Different(AskNumber.rest)
      <4>1. <<>> \in Seq(Filter)
        OBVIOUS
      <4>2. QED
        BY <4>1 DEF Fetch, AskNumber, Different
    <3>3. QED
      BY <2>1, <2>3, <3>1, <3>2 DEF Type
  <2>4. QED
    BY <2>2, <2>3 DEF Type
<1>3. QED
  BY <1>1, <1>2

LEMMA FreeLoopIsFree ==
    ASSUME Live # Loops
    PROVE  FreeLoop \in Loops /\ loop[FreeLoop] = "none"
BY DEF FreeLoop, Live

(* What is mined lies within the events that will be.                            *)
LEMMA BlocksAreMined ==
    ASSUME TypeOK
    PROVE  Len(EventsIn) \in Nat /\ height \in Nat /\ lastBlock \in 0..height
BY ObserverAssumption DEF TypeOK

--------------------------------------------------------------------------------
LEMMA InitHolds == Init => IInv
<1> SUFFICES ASSUME Init PROVE IInv
  OBVIOUS
<1>1. Len(EventsIn) \in Nat /\ <<>> \in Seq(Filter)
  BY ObserverAssumption
<1>2. TypeOK
  <2>1. NoFetch \in Fetch
    BY <1>1 DEF NoFetch, Fetch
  <2>2. fetch \in [Loops -> Fetch]
    BY <2>1 DEF Init
  <2>3. RunnerType
    BY DEF Init, RunnerInit, RunnerType
  <2>4. /\ height \in 0..Len(EventsIn) /\ lastBlock \in 0..height /\ watching \in 0..height
        /\ starting \subseteq 0..height /\ reported \subseteq Filter \X Type \X (1..height)
        /\ filters \in Seq(Filter)
    BY <1>1 DEF Init
  <2>5. QED
    BY <2>2, <2>3, <2>4 DEF TypeOK, Fetch
<1>3. FetchIsSound /\ NoFilterTwice
  BY DEF Init, RunnerInit, NoFetch, FetchIsSound, NoFilterTwice, Different, Type
<1>4. HistoryIsSound
  <2>1. since \in [Filter -> 0..height] /\ pace \in [Loops -> 0..height]
    BY DEF Init
  <2>2. \A l \in Loops : pace[l] <= 1
    BY DEF Init
  <2>3. QED
    BY <2>1, <2>2, Zenon DEF Init, HistoryIsSound
<1>5. NothingMissed /\ TicksReport
  BY DEF Init, RunnerInit, NothingMissed, TicksReport
<1>6. OneLoopInOrder
  BY DEF Init, RunnerInit, OneLoopInOrder, Live
<1>7. QED
  BY <1>2, <1>3, <1>4, <1>5, <1>6 DEF IInv

(* stop() and finalizeAndStop() do not touch the loops.                          *)
LEMMA QuietStepsHold ==
    ASSUME IInv, Stop \/ FinalizeAndStop \/ FinalizeAndStopReturns \/ UNCHANGED vars
    PROVE  IInv'
<1>1. /\ UNCHANGED <<loop, height, filters, lastBlock, fetch, starting, reported, history>>
      /\ RunnerType'
  BY DEF IInv, TypeOK, RunnerType, Stop, StopRunner, FinalizeAndStop, Finalize,
         FinalizeAndStopReturns, FinalizeReturns, vars, runner
<1>2. TypeOK'
  BY <1>1 DEF IInv, TypeOK, history
<1>3. FetchIsSound' /\ NoFilterTwice' /\ HistoryIsSound'
  BY <1>1 DEF IInv, FetchIsSound, NoFilterTwice, Different, HistoryIsSound, history
<1>4. NothingMissed'
  BY <1>1 DEF IInv, NothingMissed, Matches, history
<1>5. TicksReport'
  BY <1>1 DEF IInv, TicksReport, TickReports, StillToAsk, Elements, Expected, Matches, history
<1>6. OneLoopInOrder'
  BY <1>1 DEF IInv, OneLoopInOrder, StillToAsk, Elements, Live, history
<1>7. QED
  BY <1>2, <1>3, <1>4, <1>5, <1>6 DEF IInv

(* A filter that is new expects nothing from the blocks there are.               *)
LEMMA SubscribeHolds ==
    ASSUME IInv, NEW f \in Filter, Subscribe(f)
    PROVE  IInv'
<1>1. /\ filters' = Append(filters, f) /\ since' = [since EXCEPT ![f] = height]
      /\ \A i \in DOMAIN filters : filters[i] # f
      /\ UNCHANGED <<runner, height, lastBlock, fetch, starting, reported, watching, pace,
                     crowded, doubled, starts, faults>>
  BY DEF Subscribe
<1>2. PICK n \in Nat : n = Len(filters)
  BY LenProperties DEF IInv, TypeOK
<1>3. /\ filters' \in Seq(Filter) /\ DOMAIN filters' = 1..(n + 1) /\ DOMAIN filters = 1..n
      /\ \A i \in 1..n : filters'[i] = filters[i]
      /\ filters'[n + 1] = f
  BY <1>1, <1>2, AppendProperties, LenProperties DEF IInv, TypeOK
<1>4. TypeOK'
  BY <1>1, <1>3 DEF IInv, TypeOK, RunnerType, runner
<1>5. FetchIsSound'
  BY <1>1 DEF IInv, FetchIsSound, runner
<1>6. NoFilterTwice'
  <2>1. Different(filters')
    BY <1>1, <1>3 DEF IInv, NoFilterTwice, Different
  <2>2. QED
    BY <1>1, <2>1 DEF IInv, NoFilterTwice, Different
<1>7. HistoryIsSound'
  BY <1>1, BlocksAreMined DEF IInv, HistoryIsSound
<1>8. /\ \A i \in 1..n : since'[filters'[i]] = since[filters[i]]
      /\ since'[f] = height
  <2>1. \A i \in 1..n : filters[i] \in Filter /\ filters[i] # f
    BY <1>1, <1>3, ElementOfSeq DEF IInv, TypeOK
  <2>2. QED
    BY <1>1, <1>3, <2>1 DEF IInv, HistoryIsSound
<1>9. NothingMissed'
  <2> SUFFICES ASSUME ~crowded, NEW i \in 1..(n + 1), NEW t \in Type, NEW b \in 1..(lastBlock - 1),
                      b > since'[filters'[i]], b > watching, Matches(filters'[i], t, b)
               PROVE  <<filters'[i], t, b>> \in reported
    BY <1>1, <1>3 DEF NothingMissed, Matches
  <2>1. i # n + 1
    BY <1>3, <1>8, BlocksAreMined DEF IInv
  <2>2. i \in DOMAIN filters /\ filters'[i] = filters[i]
    BY <1>3, <2>1
  <2>3. QED
    BY <1>3, <1>8, <2>1, <2>2 DEF IInv, NothingMissed
<1>10. TicksReport'
  <2> SUFFICES ASSUME ~crowded, NEW l \in Loops, loop[l] = "tick", NEW i \in 1..(n + 1),
                      NEW t \in Type, NEW b \in 1..(height - pace[l]),
                      b > since'[filters'[i]], b > watching, Matches(filters'[i], t, b),
                      ~StillToAsk(l, filters'[i], t)
               PROVE  <<filters'[i], t, b>> \in reported
    <3>1. ASSUME NEW l \in Loops, NEW f2, NEW t \in Type
          PROVE  StillToAsk(l, f2, t)' <=> StillToAsk(l, f2, t)
      BY <1>1 DEF StillToAsk, Elements
    <3>2. QED
      BY <1>1, <1>3, <3>1 DEF TicksReport, TickReports, Expected, Matches, runner
  <2>1. i # n + 1
    BY <1>3, <1>8, BlocksAreMined DEF IInv, HistoryIsSound
  <2>2. i \in DOMAIN filters /\ filters'[i] = filters[i]
    BY <1>3, <2>1
  <2>3. QED
    BY <1>3, <1>8, <2>1, <2>2 DEF IInv, TicksReport, TickReports, Expected
<1>11. OneLoopInOrder'
  BY <1>1 DEF IInv, OneLoopInOrder, StillToAsk, Elements, Live, runner
<1>12. QED
  BY <1>4, <1>5, <1>6, <1>7, <1>9, <1>10, <1>11 DEF IInv

(* A start looks at a block no listener was called for any later than.           *)
LEMMA StartHolds ==
    ASSUME IInv, Start
    PROVE  IInv'
<1>1. /\ starting' = {height} /\ doubled' = (doubled \/ Live # {})
      /\ UNCHANGED <<runner, height, filters, lastBlock, fetch, reported, since, watching, pace,
                     crowded, faults>>
  BY DEF Start
<1>2. height \in Nat
  BY BlocksAreMined DEF IInv
<1>3. TypeOK'
  BY <1>1, <1>2 DEF IInv, TypeOK, RunnerType, runner
<1>4. FetchIsSound' /\ NoFilterTwice'
  BY <1>1 DEF IInv, FetchIsSound, NoFilterTwice, Different, runner
<1>5. HistoryIsSound'
  BY <1>1, <1>2 DEF IInv, TypeOK, HistoryIsSound
<1>6. NothingMissed'
  BY <1>1 DEF IInv, NothingMissed, Matches
<1>7. TicksReport'
  BY <1>1 DEF IInv, TicksReport, TickReports, StillToAsk, Elements, Expected, Matches, runner
<1>8. OneLoopInOrder'
  <2>1. \A r \in reported : r[3] <= height
    BY <1>2 DEF IInv, TypeOK
  <2>2. QED
    BY <1>1, <2>1 DEF IInv, OneLoopInOrder, StillToAsk, Elements, Live, runner
<1>9. QED
  BY <1>3, <1>4, <1>5, <1>6, <1>7, <1>8 DEF IInv

(* Below the block a start goes on from nothing is expected any more.            *)
LEMMA StartAnsweredHolds ==
    ASSUME IInv, StartAnswered
    PROVE  IInv'
<1>0. PICK asked \in starting : \E number \in asked..height :
        /\ starting' = {} /\ lastBlock' = number /\ watching' = number
        /\ IF state = "stop"
             THEN /\ Live # Loops /\ StartLoop(FreeLoop)
                  /\ fetch' = [fetch EXCEPT ![FreeLoop] = FetchOf("KeyAdded")]
             ELSE UNCHANGED <<runner, fetch>>
        /\ doubled' = (doubled \/ Live # {})
        /\ UNCHANGED <<height, filters, reported, since, pace, crowded, starts, faults>>
  BY DEF StartAnswered
<1>1. PICK number \in asked..height :
        /\ starting' = {} /\ lastBlock' = number /\ watching' = number
        /\ IF state = "stop"
             THEN /\ Live # Loops /\ StartLoop(FreeLoop)
                  /\ fetch' = [fetch EXCEPT ![FreeLoop] = FetchOf("KeyAdded")]
             ELSE UNCHANGED <<runner, fetch>>
        /\ doubled' = (doubled \/ Live # {})
        /\ UNCHANGED <<height, filters, reported, since, pace, crowded, starts, faults>>
  BY <1>0
<1>2. /\ height \in Nat /\ asked \in Nat /\ number \in 0..height /\ asked <= number
      /\ watching <= number /\ watching \in Nat
  BY <1>1, BlocksAreMined DEF IInv, TypeOK, HistoryIsSound
<1>3. PICK l0 : l0 = FreeLoop
  OBVIOUS
<1>4. PICK g : g = FetchOf("KeyAdded")
  OBVIOUS
<1>5. /\ g \in Fetch /\ g.type \in Type \cup {"number"}
      /\ g.type \in Type => g.rest # <<>>
      /\ Different(g.rest)
      /\ filters = <<>> => g.type = "number"
      /\ filters # <<>> => g.type = "KeyAdded" /\ g.rest = filters
  BY <1>4, FetchOfIsSound DEF IInv, TypeOK, NoFilterTwice, Type
<1>6. state = "stop" =>
        /\ l0 \in Loops /\ loop[l0] = "none" /\ loop' = [loop EXCEPT ![l0] = "tick"]
        /\ state' = "running" /\ finalizing' = finalizing
        /\ fetch' = [fetch EXCEPT ![l0] = g]
  BY <1>1, <1>3, <1>4, FreeLoopIsFree DEF StartLoop
<1>7. state # "stop" => UNCHANGED <<state, loop, finalizing, fetch>>
  BY <1>1 DEF runner
<1>8. TypeOK'
  <2>1. RunnerType'
    BY <1>6, <1>7 DEF IInv, TypeOK, RunnerType
  <2>2. fetch' \in [Loops -> Fetch]
    BY <1>5, <1>6, <1>7 DEF IInv, TypeOK, Fetch
  <2>3. QED
    BY <1>1, <1>2, <2>1, <2>2 DEF IInv, TypeOK, Fetch
<1>9. FetchIsSound'
  BY <1>1, <1>5, <1>6, <1>7 DEF IInv, TypeOK, RunnerType, FetchIsSound
<1>10. NoFilterTwice'
  <2>1. \A l \in Loops : Different(fetch'[l].rest)
    BY <1>5, <1>6, <1>7 DEF IInv, TypeOK, NoFilterTwice
  <2>2. QED
    BY <1>1, <2>1 DEF IInv, NoFilterTwice, Different
<1>11. HistoryIsSound'
  BY <1>1, <1>2 DEF IInv, HistoryIsSound
<1>12. NothingMissed'
  BY <1>1, <1>2 DEF IInv, NothingMissed, Matches
<1>13. TicksReport'
  <2> SUFFICES ASSUME ~crowded, NEW l \in Loops, loop'[l] = "tick", NEW i \in DOMAIN filters,
                      NEW t \in Type, NEW b \in 1..(height - pace[l]),
                      b > since[filters[i]], b > number, Matches(filters[i], t, b),
                      ~StillToAsk(l, filters[i], t)'
               PROVE  <<filters[i], t, b>> \in reported
    <3>1. ASSUME NEW l \in Loops, NEW f, NEW t \in Type
          PROVE  StillToAsk(l, f, t)' <=> \/ fetch'[l].type = t /\ f \in Elements(fetch'[l].rest)
                                          \/ fetch'[l].type = "KeyAdded" /\ t = "KeyRemoved"
      BY DEF StillToAsk, Elements
    <3>2. QED
      BY <1>1, <3>1, Zenon DEF TicksReport, TickReports, Expected, Matches, StillToAsk, Elements
  <2>1. CASE state = "stop" /\ l = l0
    <3>1. fetch'[l] = g /\ filters # <<>>
      BY <1>6, <2>1 DEF IInv, TypeOK
    <3>2. g.type = "KeyAdded" /\ g.rest = filters
      BY <1>5, <3>1
    <3>3. StillToAsk(l, filters[i], t)'
      BY <1>1, <3>1, <3>2 DEF StillToAsk, Elements, Type
    <3>4. QED
      BY <3>3
  <2>2. CASE ~(state = "stop" /\ l = l0)
    <3>1. fetch'[l] = fetch[l] /\ loop[l] = "tick"
      BY <1>6, <1>7, <2>2 DEF IInv, TypeOK, RunnerType
    <3>2. ~StillToAsk(l, filters[i], t)
      BY <1>1, <3>1 DEF StillToAsk, Elements
    <3>3. b > watching
      BY <1>2
    <3>4. QED
      BY <3>1, <3>2, <3>3 DEF IInv, TicksReport, TickReports, Expected
  <2>3. QED
    BY <2>1, <2>2
<1>14. OneLoopInOrder'
  <2> SUFFICES ASSUME ~doubled, Live = {}
               PROVE  OneLoopInOrder'
    BY <1>1 DEF OneLoopInOrder
  <2>1. \A r \in reported : r[3] <= number
    BY <1>1, <1>2 DEF IInv, TypeOK, OneLoopInOrder
  <2>2. \A l, m \in Live' : l = m
    BY <1>6, <1>7 DEF Live, IInv, TypeOK, RunnerType
  <2>3. QED
    BY <1>1, <2>1, <2>2 DEF OneLoopInOrder
<1>15. QED
  BY <1>8, <1>9, <1>10, <1>11, <1>12, <1>13, <1>14 DEF IInv

(* A tick that ends, fails or is not begun leaves nothing behind.                *)
LEMMA NextTickHolds ==
    ASSUME IInv, NEW l0 \in Loops, NextTick(l0)
    PROVE  IInv'
<1>1. PICK g : g = IF state = "stop" THEN NoFetch ELSE FetchOf("KeyAdded")
  OBVIOUS
<1>2. PICK next : next = IF state = "stop" THEN "none" ELSE "tick"
  OBVIOUS
<1>3. /\ loop[l0] = "timer" /\ loop' = [loop EXCEPT ![l0] = next]
      /\ fetch' = [fetch EXCEPT ![l0] = g]
      /\ UNCHANGED <<state, finalizing>>
      /\ UNCHANGED <<height, filters, lastBlock, starting, reported, history>>
  BY <1>1, <1>2 DEF NextTick, TimerFires
<1>4. /\ g \in Fetch
      /\ next = "tick" => g.type \in Type \cup {"number"}
      /\ g.type \in Type => g.rest # <<>>
      /\ Different(g.rest) /\ next \in {"none", "tick"}
      /\ next = "tick" /\ filters # <<>> => g.type = "KeyAdded" /\ g.rest = filters
  <2>1. CASE state = "stop"
    <3>1. <<>> \in Seq(Filter)
      OBVIOUS
    <3>2. QED
      BY <1>1, <1>2, <2>1, <3>1 DEF NoFetch, Fetch, Different, Type
  <2>2. CASE state # "stop"
    BY <1>1, <1>2, <2>2, FetchOfIsSound DEF IInv, TypeOK, NoFilterTwice, Type
  <2>3. QED
    BY <2>1, <2>2
<1>5. TypeOK'
  <2>1. RunnerType'
    BY <1>3, <1>4 DEF IInv, TypeOK, RunnerType
  <2>2. fetch' \in [Loops -> Fetch]
    BY <1>3, <1>4 DEF IInv, TypeOK, Fetch
  <2>3. QED
    BY <1>3, <2>1, <2>2 DEF IInv, TypeOK, Fetch, history
<1>6. FetchIsSound'
  BY <1>3, <1>4 DEF IInv, TypeOK, RunnerType, FetchIsSound, history
<1>7. NoFilterTwice'
  <2>1. \A l \in Loops : Different(fetch'[l].rest)
    BY <1>3, <1>4 DEF IInv, TypeOK, NoFilterTwice
  <2>2. QED
    BY <1>3, <2>1 DEF IInv, NoFilterTwice, Different
<1>8. HistoryIsSound'
  BY <1>3 DEF IInv, HistoryIsSound, history
<1>9. NothingMissed'
  BY <1>3 DEF IInv, NothingMissed, Matches, history
<1>10. TicksReport'
  <2> SUFFICES ASSUME ~crowded, NEW l \in Loops, loop'[l] = "tick", NEW i \in DOMAIN filters,
                      NEW t \in Type, NEW b \in 1..(height - pace[l]),
                      Expected(filters[i], t, b), ~StillToAsk(l, filters[i], t)'
               PROVE  <<filters[i], t, b>> \in reported
    BY <1>3, Zenon DEF TicksReport, TickReports, Expected, Matches, StillToAsk, Elements, history
  <2>1. CASE l = l0
    <3>1. fetch'[l] = g /\ next = "tick" /\ filters # <<>>
      BY <1>3, <2>1 DEF IInv, TypeOK, RunnerType
    <3>2. StillToAsk(l, filters[i], t)'
      BY <1>3, <1>4, <3>1 DEF StillToAsk, Elements, Type
    <3>3. QED
      BY <3>2
  <2>2. CASE l # l0
    <3>1. fetch'[l] = fetch[l] /\ loop[l] = "tick"
      BY <1>3, <2>2 DEF IInv, TypeOK, RunnerType
    <3>2. ~StillToAsk(l, filters[i], t)
      BY <1>3, <3>1 DEF StillToAsk, Elements
    <3>3. QED
      BY <3>1, <3>2 DEF IInv, TicksReport, TickReports
  <2>3. QED
    BY <2>1, <2>2
<1>11. OneLoopInOrder'
  <2> SUFFICES ASSUME ~doubled
               PROVE  OneLoopInOrder'
    BY <1>3 DEF OneLoopInOrder, history
  <2>1. l0 \in Live /\ Live' \subseteq Live
    BY <1>3, <1>4 DEF Live, IInv, TypeOK, RunnerType
  <2>2. \A r \in reported : r[3] <= lastBlock
    BY <1>3, <2>1 DEF IInv, OneLoopInOrder
  <2>3. QED
    BY <1>3, <2>1, <2>2 DEF IInv, OneLoopInOrder
<1>12. QED
  BY <1>5, <1>6, <1>7, <1>8, <1>9, <1>10, <1>11 DEF IInv

(* An answer takes its filter and type, and nothing else, off what the tick is   *)
(* still to ask for.                                                             *)
LEMMA AnswerIsTakenOff ==
    ASSUME IInv, NEW l \in Loops, FetchLogs(l), NEW f, NEW t \in Type
    PROVE  /\ StillToAsk(l, f, t)' => StillToAsk(l, f, t)
           /\ StillToAsk(l, f, t)' => ~(f = Head(fetch[l].rest) /\ t = fetch[l].type)
           /\ StillToAsk(l, f, t) /\ f \in Elements(filters) /\ ~StillToAsk(l, f, t)'
                => f = Head(fetch[l].rest) /\ t = fetch[l].type
<1>1. PICK h \in Fetch : h = fetch[l]
  BY DEF IInv, TypeOK, Fetch
<1>2. h.type \in Type /\ h.rest # <<>> /\ Different(h.rest)
  BY <1>1 DEF FetchLogs, IInv, FetchIsSound, NoFilterTwice
<1>3. PICK g : g = AskNext(h)
  OBVIOUS
<1>4. fetch'[l] = g
  BY <1>1, <1>3 DEF FetchLogs, IInv, TypeOK
<1>5. StillToAsk(l, f, t) <=> \/ h.type = t /\ f \in Elements(h.rest)
                              \/ h.type = "KeyAdded" /\ t = "KeyRemoved"
  BY <1>1 DEF StillToAsk
<1>6. StillToAsk(l, f, t)' <=> \/ g.type = t /\ f \in Elements(g.rest)
                               \/ g.type = "KeyAdded" /\ t = "KeyRemoved"
  BY <1>4 DEF StillToAsk, Elements
<1>7. \/ /\ g.type = h.type /\ Elements(g.rest) = Elements(h.rest) \ {Head(h.rest)}
      \/ /\ Elements(h.rest) = {Head(h.rest)}
         /\ h.type = "KeyAdded" /\ g = FetchOf("KeyRemoved")
      \/ /\ Elements(h.rest) = {Head(h.rest)}
         /\ h.type = "KeyRemoved" /\ g = AskNumber
  BY <1>2, <1>3, AskNextIsSound DEF IInv, TypeOK, NoFilterTwice
<1>8. g = FetchOf("KeyRemoved") =>
        /\ filters = <<>> => g.type = "number"
        /\ filters # <<>> => g.type = "KeyRemoved" /\ g.rest = filters
  BY FetchOfIsSound DEF IInv, TypeOK, NoFilterTwice, Type
<1>9. f \in Elements(filters) => filters # <<>>
  BY DEF Elements
<1>10. g = AskNumber => g.type = "number"
  BY DEF AskNumber
<1>11. (g.type = "number" => ~StillToAsk(l, f, t)') /\ (t = "KeyAdded" \/ t = "KeyRemoved")
  BY <1>6 DEF Type
<1>12. CASE g.type = h.type /\ Elements(g.rest) = Elements(h.rest) \ {Head(h.rest)}
  BY <1>1, <1>2, <1>5, <1>6, <1>11, <1>12 DEF Type
<1>13. CASE /\ Elements(h.rest) = {Head(h.rest)}
            /\ h.type = "KeyAdded" /\ g = FetchOf("KeyRemoved")
  BY <1>1, <1>5, <1>6, <1>8, <1>9, <1>11, <1>13
<1>14. CASE /\ Elements(h.rest) = {Head(h.rest)}
            /\ h.type = "KeyRemoved" /\ g = AskNumber
  BY <1>1, <1>5, <1>10, <1>11, <1>14
<1>15. QED
  BY <1>7, <1>12, <1>13, <1>14

(* An answer reports every block that matches from the last one seen.            *)
LEMMA FetchLogsHolds ==
    ASSUME IInv, NEW l0 \in Loops, FetchLogs(l0)
    PROVE  IInv'
<1>1. PICK h \in Fetch : h = fetch[l0]
  BY DEF IInv, TypeOK, Fetch
<1>2. PICK f0, t0, B, g :
        f0 = Head(h.rest) /\ t0 = h.type /\ B = Found(l0) /\ g = AskNext(h)
  OBVIOUS
<1>3. /\ loop[l0] = "tick" /\ t0 \in Type /\ reported' = reported \cup {<<f0, t0, b>> : b \in B}
      /\ fetch' = [fetch EXCEPT ![l0] = g]
      /\ UNCHANGED <<runner, height, filters, lastBlock, starting, history>>
  BY <1>1, <1>2 DEF FetchLogs
<1>4. h.rest # <<>> /\ Different(h.rest) /\ f0 \in Filter
  <2>1. h.rest # <<>> /\ Different(h.rest) /\ h.rest \in Seq(Filter)
    BY <1>1, <1>2, <1>3 DEF IInv, FetchIsSound, NoFilterTwice, Fetch
  <2>2. QED
    BY <1>2, <2>1, HeadTailProperties
<1>5. /\ B \subseteq 1..height
      /\ \A b \in lastBlock..height : b > 0 /\ Matches(f0, t0, b) => b \in B
  <2>1. B = {b \in Logs(t0, f0, height) : Matches(f0, t0, b)}
    BY <1>1, <1>2 DEF Found
  <2>2. Logs(t0, f0, height) \subseteq 1..height
    BY BlocksAreMined DEF IInv, Logs
  <2>3. ASSUME NEW b \in lastBlock..height, b > 0, Matches(f0, t0, b)
        PROVE  b \in Logs(t0, f0, height)
    <3> DEFINE e == [type |-> t0, contract |-> f0.contract, key |-> f0.key]
    <3>1. e \in EventsIn[b] /\ e.type = t0 /\ e.contract = f0.contract
      BY <2>3 DEF Matches
    <3> HIDE DEF e
    <3>2. QED
      BY <2>3, <3>1 DEF Logs
  <2>4. QED
    BY <2>1, <2>2, <2>3
<1>6. /\ g \in Fetch /\ g.type \in Type \cup {"number"} /\ Different(g.rest)
      /\ g.type \in Type => g.rest # <<>>
  BY <1>2, <1>3, <1>4, AskNextIsSound DEF IInv, TypeOK, NoFilterTwice
<1>7. TypeOK'
  <2>1. fetch' \in [Loops -> Fetch]
    BY <1>3, <1>6 DEF IInv, TypeOK, Fetch
  <2>2. reported' \subseteq Filter \X Type \X (1..height)
    BY <1>3, <1>4, <1>5 DEF IInv, TypeOK
  <2>3. QED
    BY <1>3, <2>1, <2>2 DEF IInv, TypeOK, RunnerType, Fetch, runner, history
<1>8. FetchIsSound'
  BY <1>3, <1>6 DEF IInv, TypeOK, FetchIsSound, runner, history
<1>9. NoFilterTwice'
  <2>1. \A l \in Loops : Different(fetch'[l].rest)
    BY <1>3, <1>6 DEF IInv, TypeOK, NoFilterTwice
  <2>2. QED
    BY <1>3, <2>1 DEF IInv, NoFilterTwice, Different
<1>10. HistoryIsSound'
  BY <1>3 DEF IInv, HistoryIsSound, history
<1>11. NothingMissed'
  BY <1>3 DEF IInv, NothingMissed, Matches, history
<1>12. \A l \in Loops : \A f : \A t \in Type :
          l # l0 => (StillToAsk(l, f, t)' <=> StillToAsk(l, f, t))
  <2> SUFFICES ASSUME NEW l \in Loops, NEW f, NEW t \in Type, l # l0
               PROVE  StillToAsk(l, f, t)' <=> StillToAsk(l, f, t)
    OBVIOUS
  <2>1. fetch'[l] = fetch[l]
    BY <1>3 DEF IInv, TypeOK
  <2>2. QED
    BY <2>1 DEF StillToAsk, Elements
<1>13. TicksReport'
  <2> SUFFICES ASSUME ~crowded, NEW l \in Loops, loop[l] = "tick", NEW i \in DOMAIN filters,
                      NEW t \in Type, NEW b \in 1..(height - pace[l]),
                      Expected(filters[i], t, b), ~StillToAsk(l, filters[i], t)'
               PROVE  <<filters[i], t, b>> \in reported'
    BY <1>3, Zenon
    DEF TicksReport, TickReports, Expected, Matches, StillToAsk, Elements, history, runner
  <2>1. PICK f : f = filters[i] /\ f \in Elements(filters)
    BY DEF Elements
  <2>2. ~StillToAsk(l, f, t)'
    BY <1>3, <2>1 DEF StillToAsk, Elements
  <2>3. CASE ~StillToAsk(l, f, t)
    <3>1. <<f, t, b>> \in reported
      BY <2>1, <2>3 DEF IInv, TicksReport, TickReports
    <3>2. QED
      BY <1>3, <2>1, <3>1
  <2>4. CASE StillToAsk(l, f, t)
    <3>1. l = l0
      BY <1>12, <2>2, <2>4
    <3>2. f = f0 /\ t = t0
      BY <1>1, <1>2, <2>1, <2>2, <2>4, <3>1, AnswerIsTakenOff
    <3>3. b \in 1..height /\ b > since[f] /\ b > watching /\ Matches(f, t, b)
      BY <2>1, BlocksAreMined DEF IInv, HistoryIsSound, Expected
    <3>4. CASE b \in 1..(lastBlock - 1)
      <4>1. <<f, t, b>> \in reported
        BY <2>1, <3>3, <3>4 DEF IInv, NothingMissed
      <4>2. QED
        BY <1>3, <2>1, <4>1
    <3>5. CASE b \notin 1..(lastBlock - 1)
      <4>1. b \in lastBlock..height
        BY <3>3, <3>5, BlocksAreMined DEF IInv
      <4>2. b \in B
        BY <1>5, <3>2, <3>3, <4>1
      <4>3. QED
        BY <1>3, <2>1, <3>2, <4>2
    <3>6. QED
      BY <3>4, <3>5
  <2>5. QED
    BY <2>3, <2>4
<1>14. OneLoopInOrder'
  <2> SUFFICES ASSUME ~doubled
               PROVE  OneLoopInOrder'
    BY <1>3 DEF OneLoopInOrder, history
  <2>1. l0 \in Live /\ Live' = Live /\ starting' = {} /\ starting = {}
    BY <1>3 DEF Live, runner, IInv, OneLoopInOrder
  <2>2. \A l, m \in Live' : l = m
    BY <2>1 DEF IInv, OneLoopInOrder
  <2>3. ASSUME NEW l \in Live', NEW r \in reported', loop'[l] = "timer" \/ StillToAsk(l, r[1], r[2])'
        PROVE  r[3] <= lastBlock'
    <3>1. l = l0 /\ loop'[l] # "timer" /\ l \in Loops
      BY <1>3, <2>1, <2>2, <2>3 DEF runner
    <3>2. PICK f, t, b : r = <<f, t, b>> /\ t \in Type
      BY <1>3 DEF IInv, TypeOK
    <3>3. StillToAsk(l, f, t)'
      BY <2>3, <3>1, <3>2
    <3>4. StillToAsk(l, f, t) /\ ~(f = f0 /\ t = t0)
      BY <1>1, <1>2, <3>1, <3>2, <3>3, AnswerIsTakenOff
    <3>5. r \in reported
      BY <1>3, <3>2, <3>4
    <3>6. QED
      BY <1>3, <2>1, <2>3, <3>2, <3>4, <3>5 DEF IInv, OneLoopInOrder
  <2>4. QED
    BY <2>1, <2>2, <2>3 DEF OneLoopInOrder
<1>15. QED
  BY <1>7, <1>8, <1>9, <1>10, <1>11, <1>13, <1>14 DEF IInv

(* The end of a tick, good or bad: the loop is asleep or gone.                   *)
LEMMA ForgetHolds ==
    ASSUME TypeOK, FetchIsSound, NoFilterTwice, HistoryIsSound,
           NEW l0 \in Loops, NEW next \in {"none", "timer"},
           loop' = [loop EXCEPT ![l0] = next], Forget(l0),
           state' \in {"stop", "stopping", "running"},
           lastBlock' \in {lastBlock, height},
           UNCHANGED <<finalizing, height, filters, starting, reported, since, watching,
                       crowded, doubled>>
    PROVE  TypeOK' /\ FetchIsSound' /\ NoFilterTwice' /\ HistoryIsSound'
<1>1. /\ height \in Nat /\ lastBlock' \in 0..height
  BY BlocksAreMined
<1>2. fetch' = [fetch EXCEPT ![l0] = NoFetch] /\ pace' = [pace EXCEPT ![l0] = 0]
  BY DEF Forget
<1>3. NoFetch \in Fetch /\ NoFetch.type = "none" /\ Different(NoFetch.rest)
  <2>1. <<>> \in Seq(Filter)
    OBVIOUS
  <2>2. QED
    BY <2>1 DEF NoFetch, Fetch, Different
<1>4. TypeOK'
  <2>1. RunnerType'
    BY DEF TypeOK, RunnerType
  <2>2. fetch' \in [Loops -> Fetch]
    BY <1>2, <1>3 DEF TypeOK, Fetch
  <2>3. QED
    BY <1>1, <2>1, <2>2 DEF TypeOK, Fetch
<1>5. FetchIsSound'
  BY <1>2, <1>3 DEF TypeOK, RunnerType, HistoryIsSound, FetchIsSound, Type
<1>6. NoFilterTwice'
  <2>1. \A l \in Loops : Different(fetch'[l].rest)
    BY <1>2, <1>3 DEF TypeOK, NoFilterTwice
  <2>2. QED
    BY <2>1 DEF NoFilterTwice, Different
<1>7. HistoryIsSound'
  BY <1>1, <1>2 DEF HistoryIsSound
<1>8. QED
  BY <1>4, <1>5, <1>6, <1>7

(* The ticks of the other loops go on.                                           *)
LEMMA OtherTicksReport ==
    ASSUME TypeOK, HistoryIsSound, TicksReport, NEW l0 \in Loops,
           NEW next \in {"none", "timer"}, loop' = [loop EXCEPT ![l0] = next], Forget(l0),
           UNCHANGED <<height, filters, reported, since, watching, crowded>>
    PROVE  TicksReport'
<1> SUFFICES ASSUME ~crowded, NEW l \in Loops, loop'[l] = "tick", NEW i \in DOMAIN filters,
                    NEW t \in Type, NEW b \in 1..(height - pace'[l]),
                    Expected(filters[i], t, b), ~StillToAsk(l, filters[i], t)'
             PROVE  <<filters[i], t, b>> \in reported
  BY Zenon DEF TicksReport, TickReports, Expected, Matches, StillToAsk, Elements
<1>1. l # l0
  BY DEF TypeOK, RunnerType
<1>2. fetch'[l] = fetch[l] /\ pace'[l] = pace[l] /\ loop[l] = "tick"
  BY <1>1 DEF Forget, TypeOK, RunnerType, HistoryIsSound
<1>3. ~StillToAsk(l, filters[i], t)
  BY <1>2 DEF StillToAsk, Elements
<1>4. QED
  BY <1>2, <1>3 DEF TicksReport, TickReports

LEMMA SetLastBlockHolds ==
    ASSUME IInv, NEW l0 \in Loops, SetLastBlock(l0)
    PROVE  IInv'
<1>1. PICK next : next = IF state = "stopping" THEN "none" ELSE "timer"
  OBVIOUS
<1>2. /\ loop[l0] = "tick" /\ fetch[l0].type = "number" /\ lastBlock' = height /\ Forget(l0)
      /\ loop' = [loop EXCEPT ![l0] = next] /\ next \in {"none", "timer"}
      /\ state' \in {"stop", "stopping", "running"}
      /\ UNCHANGED <<finalizing, height, filters, starting, reported, since, watching, crowded,
                     doubled, starts, faults>>
  BY <1>1 DEF SetLastBlock, TickEnds, IInv, TypeOK, RunnerType
<1>3. TypeOK' /\ FetchIsSound' /\ NoFilterTwice' /\ HistoryIsSound'
  BY <1>2, ForgetHolds DEF IInv
<1>4. TicksReport'
  BY <1>2, OtherTicksReport DEF IInv
<1>5. NothingMissed'
  <2> SUFFICES ASSUME ~crowded, NEW i \in DOMAIN filters, NEW t \in Type,
                      NEW b \in 1..(height - 1), Expected(filters[i], t, b)
               PROVE  <<filters[i], t, b>> \in reported
    BY <1>2, Zenon DEF NothingMissed, Expected, Matches
  <2>1. height \in Nat /\ pace[l0] \in Nat /\ pace[l0] <= 1
    BY BlocksAreMined DEF IInv, HistoryIsSound
  <2>2. b \in 1..(height - pace[l0])
    BY <2>1
  <2>3. ~StillToAsk(l0, filters[i], t)
    BY <1>2 DEF StillToAsk, Type
  <2>4. QED
    BY <1>2, <2>2, <2>3 DEF IInv, TicksReport, TickReports
<1>6. OneLoopInOrder'
  <2> SUFFICES ASSUME ~doubled
               PROVE  OneLoopInOrder'
    BY <1>2 DEF OneLoopInOrder
  <2>1. l0 \in Live /\ Live' \subseteq Live /\ starting' = {}
    BY <1>2 DEF Live, IInv, TypeOK, RunnerType, OneLoopInOrder
  <2>2. \A r \in reported : r[3] <= height
    BY BlocksAreMined DEF IInv, TypeOK
  <2>3. QED
    BY <1>2, <2>1, <2>2 DEF IInv, OneLoopInOrder
<1>7. QED
  BY <1>3, <1>4, <1>5, <1>6 DEF IInv

LEMMA NodeFailsHolds ==
    ASSUME IInv, NEW l0 \in Loops, NodeFails(l0)
    PROVE  IInv'
<1>1. /\ loop[l0] = "tick" /\ Forget(l0) /\ loop' = [loop EXCEPT ![l0] = "none"]
      /\ UNCHANGED <<state, finalizing, height, filters, lastBlock, starting, reported, since,
                     watching, crowded, doubled, starts>>
  BY DEF NodeFails, TickThrows
<1>2. TypeOK' /\ FetchIsSound' /\ NoFilterTwice' /\ HistoryIsSound'
  BY <1>1, ForgetHolds DEF IInv, TypeOK, RunnerType
<1>3. TicksReport'
  BY <1>1, OtherTicksReport DEF IInv
<1>4. NothingMissed'
  BY <1>1 DEF IInv, NothingMissed, Matches
<1>5. OneLoopInOrder'
  <2> SUFFICES ASSUME ~doubled
               PROVE  OneLoopInOrder'
    BY <1>1 DEF OneLoopInOrder
  <2>1. l0 \in Live /\ Live' \subseteq Live \ {l0} /\ starting' = {}
    BY <1>1 DEF Live, IInv, TypeOK, RunnerType, OneLoopInOrder
  <2>2. Live' = {}
    BY <2>1 DEF IInv, OneLoopInOrder
  <2>3. QED
    BY <2>1, <2>2 DEF OneLoopInOrder
<1>6. QED
  BY <1>2, <1>3, <1>4, <1>5 DEF IInv

(* A block that is mined during a tick counts for its pace.                      *)
LEMMA MineHolds ==
    ASSUME IInv, Mine
    PROVE  IInv'
<1>1. /\ height < Len(EventsIn) /\ height' = height + 1
      /\ pace' = [l \in Loops |-> IF loop[l] = "tick" THEN pace[l] + 1 ELSE 0]
      /\ crowded' = (crowded \/ \E l \in Loops : pace'[l] > 1)
      /\ UNCHANGED <<runner, filters, lastBlock, fetch, starting, reported, since, watching,
                     doubled, starts, faults>>
  BY DEF Mine
<1>2. height \in Nat /\ Len(EventsIn) \in Nat /\ 0..height \subseteq 0..(height + 1)
  BY BlocksAreMined DEF IInv
<1>3. TypeOK'
  BY <1>1, <1>2 DEF IInv, TypeOK, RunnerType, runner
<1>4. FetchIsSound' /\ NoFilterTwice'
  BY <1>1 DEF IInv, FetchIsSound, NoFilterTwice, Different, runner
<1>5. HistoryIsSound'
  <2>1. since' \in [Filter -> 0..height']
    BY <1>1, <1>2 DEF IInv, HistoryIsSound
  <2>2. pace' \in [Loops -> 0..height']
    BY <1>1, <1>2 DEF IInv, HistoryIsSound
  <2>3. crowded' \in BOOLEAN /\ (~crowded' => \A l \in Loops : pace'[l] <= 1)
    <3>1. \A l \in Loops : pace'[l] \in Nat
      BY <1>2, <1>1, <2>2
    <3>2. crowded' \in BOOLEAN
      BY <1>1, Zenon DEF IInv, HistoryIsSound
    <3>3. ASSUME ~crowded', NEW l \in Loops PROVE pace'[l] <= 1
      <4>1. ~(pace'[l] > 1)
        BY <1>1, <3>3, Zenon
      <4>2. QED
        BY <3>1, <4>1
    <3>4. QED
      BY <3>2, <3>3
  <2>4. QED
    BY <1>1, <2>1, <2>2, <2>3 DEF IInv, HistoryIsSound
<1>6. NothingMissed'
  BY <1>1 DEF IInv, NothingMissed, Matches
<1>7. TicksReport'
  <2> SUFFICES ASSUME ~crowded, NEW l \in Loops, loop[l] = "tick", NEW i \in DOMAIN filters,
                      NEW t \in Type, NEW b \in 1..(height' - pace'[l]),
                      Expected(filters[i], t, b), ~StillToAsk(l, filters[i], t)
               PROVE  <<filters[i], t, b>> \in reported
    <3>1. ~crowded' => ~crowded
      BY <1>1
    <3>2. \A l \in Loops : \A f : \A t \in Type : StillToAsk(l, f, t)' <=> StillToAsk(l, f, t)
      BY <1>1 DEF StillToAsk, Elements
    <3>3. UNCHANGED <<loop, filters, reported, since, watching>>
      BY <1>1 DEF runner
    <3>4. QED
      BY <3>1, <3>2, <3>3 DEF TicksReport, TickReports, Expected, Matches
  <2>1. height' - pace'[l] = height - pace[l]
    BY <1>1, <1>2 DEF IInv, HistoryIsSound
  <2>2. QED
    BY <2>1 DEF IInv, TicksReport, TickReports
<1>8. OneLoopInOrder'
  BY <1>1 DEF IInv, OneLoopInOrder, StillToAsk, Elements, Live, runner
<1>9. QED
  BY <1>3, <1>4, <1>5, <1>6, <1>7, <1>8 DEF IInv

--------------------------------------------------------------------------------
LEMMA StepHolds == IInv /\ [Next]_vars => IInv'
BY QuietStepsHold, SubscribeHolds, StartHolds, StartAnsweredHolds, NextTickHolds, FetchLogsHolds,
   SetLastBlockHolds, NodeFailsHolds, MineHolds
DEF Next, Step

(* What ticks await, the filters, the history, and what is reported when, are    *)
(* inductive: for any chain, any filters, any number of loops, starts, stops and *)
(* rejected calls (BlockchainObserver.ts, ObserverRunner.ts).                    *)
THEOREM ObserverInvariant == Spec => []IInv
<1>1. Init => IInv
  BY InitHolds
<1>2. QED
  BY <1>1, StepHolds, PTL DEF Spec

(* The loops, the filters and the reports keep their types.                      *)
THEOREM ObserverTypes == Spec => []TypeOK
<1>1. IInv => TypeOK
  BY DEF IInv
<1>2. QED
  BY <1>1, ObserverInvariant, PTL

(* As long as no two blocks are mined in one tick every listener is called for   *)
(* every event of its key below the last block, although the number of that block*)
(* is read after the logs (BlockchainObserver.ts:25-29).                         *)
THEOREM ObserverMissesNothing == Spec => []NothingMissed
<1>1. IInv => NothingMissed
  BY DEF IInv
<1>2. QED
  BY <1>1, ObserverInvariant, PTL

(* While one loop runs no event is reported after a later one of its filter and  *)
(* type, over restarts and rejected calls (BlockchainObserver.ts:35).            *)
THEOREM ObserverReportsInOrder == Spec => ReportedInOrder
<1> DEFINE InOrder ==
      \A l \in Loops : FetchLogs(l) /\ ~doubled =>
          \A b \in Found(l), r \in reported :
              r[1] = Head(fetch[l].rest) /\ r[2] = fetch[l].type => b >= r[3]
<1>1. IInv => InOrder
  <2> SUFFICES ASSUME IInv, NEW l \in Loops, FetchLogs(l), ~doubled,
                      NEW b \in Found(l), NEW r \in reported,
                      r[1] = Head(fetch[l].rest), r[2] = fetch[l].type
               PROVE  b >= r[3]
    OBVIOUS
  <2>1. l \in Live /\ fetch[l] \in Fetch /\ fetch[l].rest # <<>>
    BY DEF FetchLogs, Live, IInv, TypeOK, Fetch, FetchIsSound
  <2>2. r[1] \in Elements(fetch[l].rest)
    <3>1. fetch[l].rest \in Seq(Filter)
      BY <2>1 DEF Fetch
    <3>2. 1 \in DOMAIN fetch[l].rest /\ Head(fetch[l].rest) = fetch[l].rest[1]
      BY <2>1, <3>1, EmptySeq, LenProperties
    <3>3. QED
      BY <3>2 DEF Elements
  <2>3. r[3] <= lastBlock
    BY <2>1, <2>2 DEF StillToAsk, IInv, OneLoopInOrder
  <2>4. b \in lastBlock..height
    BY DEF Found, Logs
  <2>5. r[3] \in Nat /\ lastBlock \in Nat /\ height \in Nat
    BY BlocksAreMined DEF IInv, TypeOK
  <2>6. QED
    BY <2>3, <2>4, <2>5
<1>2. IInv /\ [Next]_vars => [InOrder]_vars
  BY <1>1
<1>3. QED
  BY <1>2, ObserverInvariant, PTL DEF Spec, ReportedInOrder
================================================================================
