--------------------------- MODULE BlockchainObserver ---------------------------
(* The observer of KeyAdded and KeyRemoved: a tick asks the node for the logs   *)
(* of each filter, type by type, and then for the number of the last block,     *)
(* from which the next tick goes on.  The answers take time: blocks are mined,  *)
(* filters are added and the observer is stopped and started between any two.   *)
EXTENDS ObserverRunner, Sequences

CONSTANTS
    Filter,         \* [contract, key]; the key of a filter without one is "undefined"
    Contract, Key,
    EventsIn,       \* a sequence: the events in each block that will be mined
    MaxFaults, MaxStarts   \* bounds: rejected calls of the node, calls of start

VARIABLES
    height,         \* the number of the last block mined
    filters,        \* the keys of `emitters`, in the order of their creation
    lastBlock,
    fetch,          \* the tick of each loop: what it awaits
    starting,       \* the block numbers at which pending calls of start asked
    reported,       \* the <<filter, type, block>> that listeners were called with
    since,          \* the block at which each filter was subscribed
    watching,       \* the block from which the last start() watches
    pace,           \* blocks mined in the tick of each loop
    crowded, doubled, starts, faults   \* history: what happened so far

history == <<since, watching, pace, crowded, doubled, starts, faults>>
vars == <<runner, height, filters, lastBlock, fetch, starting, reported, history>>

Type == {"KeyAdded", "KeyRemoved"}
Event == [type : Type, contract : Contract, key : Key]
ASSUME ObserverAssumption ==
    /\ Filter \subseteq [contract : Contract, key : Key \cup {"undefined"}]
    /\ EventsIn \in Seq(SUBSET Event)

NoFetch == [type |-> "none", rest |-> <<>>]
AskNumber == [type |-> "number", rest |-> <<>>]
FetchOf(type) == IF filters = <<>> THEN AskNumber ELSE [type |-> type, rest |-> filters]
(* What a tick asks for when it has an answer for the head of `rest`.           *)
AskNext(f) ==
    IF Len(f.rest) > 1 THEN [f EXCEPT !.rest = Tail(@)]
    ELSE IF f.type = "KeyAdded" THEN FetchOf("KeyRemoved") ELSE AskNumber

Init ==
    /\ RunnerInit /\ height = 0 /\ filters = <<>> /\ lastBlock = 0
    /\ fetch = [l \in Loops |-> NoFetch] /\ starting = {}
    /\ reported = {}
    /\ since = [f \in Filter |-> 0] /\ watching = 0 /\ pace = [l \in Loops |-> 0]
    /\ crowded = FALSE /\ doubled = FALSE /\ starts = 0 /\ faults = 0

--------------------------------------------------------------------------------
(* subscribe: one emitter per filter, never removed.                            *)
Subscribe(f) ==
    /\ \A i \in DOMAIN filters : filters[i] # f
    /\ filters' = Append(filters, f) /\ since' = [since EXCEPT ![f] = height]
    /\ UNCHANGED <<runner, height, lastBlock, fetch, starting, reported, watching, pace,
                   crowded, doubled, starts, faults>>

(* start() first asks for the block number; a stop() meanwhile changes nothing. *)
Start ==
    /\ starts < MaxStarts /\ starts' = starts + 1 /\ starting = {}
    /\ starting' = {height} /\ doubled' = (doubled \/ Live # {})
    /\ UNCHANGED <<runner, height, filters, lastBlock, fetch, reported, since, watching, pace,
                   crowded, faults>>

(* The answer is the number at some moment since; it is assigned even if the    *)
(* observer runs.                                                               *)
StartAnswered ==
    \E asked \in starting : \E number \in asked..height :
        /\ starting' = {} /\ lastBlock' = number /\ watching' = number
        /\ IF state = "stop"
             THEN /\ Live # Loops /\ StartLoop(FreeLoop)
                  /\ fetch' = [fetch EXCEPT ![FreeLoop] = FetchOf("KeyAdded")]
             ELSE UNCHANGED <<runner, fetch>>
        /\ doubled' = (doubled \/ Live # {})
        /\ UNCHANGED <<height, filters, reported, since, pace, crowded, starts, faults>>

Stop ==
    /\ state # "stop" /\ StopRunner
    /\ UNCHANGED <<height, filters, lastBlock, fetch, starting, reported, history>>

FinalizeAndStop ==
    /\ Finalize
    /\ UNCHANGED <<height, filters, lastBlock, fetch, starting, reported, history>>

FinalizeAndStopReturns ==
    /\ FinalizeReturns
    /\ UNCHANGED <<height, filters, lastBlock, fetch, starting, reported, history>>

--------------------------------------------------------------------------------
NextTick(l) ==
    /\ TimerFires(l)
    /\ fetch' = [fetch EXCEPT ![l] = IF state = "stop" THEN NoFetch ELSE FetchOf("KeyAdded")]
    /\ UNCHANGED <<height, filters, lastBlock, starting, reported, history>>

(* A filter without a key is compared with the string "undefined", which its    *)
(* key, left out by JSON.stringify, is not: it matches nothing.                 *)
Matches(f, type, b) == [type |-> type, contract |-> f.contract, key |-> f.key] \in EventsIn[b]

(* Mutant: from the block after the last one seen.                              *)
LogsAfter(type, f, until) ==
    {b \in (lastBlock + 1)..until : \E e \in EventsIn[b] : e.type = type /\ e.contract = f.contract}

(* getLogs: what the filter asks for, up to the block of the answer.            *)
Logs(type, f, until) ==
    {b \in lastBlock..until :
        b > 0 /\ \E e \in EventsIn[b] : e.type = type /\ e.contract = f.contract}

(* The blocks whose events an answer to the loop reports.                       *)
Found(l) ==
    LET f == Head(fetch[l].rest)
    IN  {b \in Logs(fetch[l].type, f, height) : Matches(f, fetch[l].type, b)}

(* Nothing reads what a listener was told or, while one loop runs, lastBlock:   *)
(* an answer that travels long is as good as one given late, so the answers to  *)
(* a tick are those of the block at which they arrive.                          *)
FetchLogs(l) ==
    /\ loop[l] = "tick" /\ fetch[l].type \in Type
    /\ reported' = reported \cup {<<Head(fetch[l].rest), fetch[l].type, b>> : b \in Found(l)}
    /\ fetch' = [fetch EXCEPT ![l] = AskNext(@)]
    /\ UNCHANGED <<runner, height, filters, lastBlock, starting, history>>

(* Nothing is left of a tick.                                                   *)
Forget(l) == fetch' = [fetch EXCEPT ![l] = NoFetch] /\ pace' = [pace EXCEPT ![l] = 0]

(* Mutant: the number was asked for when the tick began, before the logs.       *)
NumberFromBefore(l) ==
    /\ loop[l] = "tick" /\ fetch[l].type = "number"
    /\ lastBlock' = (height - pace[l]) /\ TickEnds(l) /\ Forget(l)
    /\ UNCHANGED <<height, filters, starting, reported, since, watching, crowded, doubled,
                   starts, faults>>

SetLastBlock(l) ==
    /\ loop[l] = "tick" /\ fetch[l].type = "number"
    /\ lastBlock' = height /\ TickEnds(l) /\ Forget(l)
    /\ UNCHANGED <<height, filters, starting, reported, since, watching, crowded, doubled,
                   starts, faults>>

(* A call of the node is rejected.                                              *)
NodeFails(l) ==
    /\ faults < MaxFaults /\ faults' = faults + 1
    /\ TickThrows(l) /\ Forget(l)
    /\ UNCHANGED <<height, filters, lastBlock, starting, reported, since, watching, crowded,
                   doubled, starts>>

Mine ==
    /\ height < Len(EventsIn) /\ height' = height + 1
    /\ pace' = [l \in Loops |-> IF loop[l] = "tick" THEN pace[l] + 1 ELSE 0]
    /\ crowded' = (crowded \/ \E l \in Loops : pace'[l] > 1)
    /\ UNCHANGED <<runner, filters, lastBlock, fetch, starting, reported, since, watching,
                   doubled, starts, faults>>

Step(l) == NextTick(l) \/ FetchLogs(l) \/ SetLastBlock(l)

Next ==
    \/ \E f \in Filter : Subscribe(f)
    \/ Start \/ StartAnswered \/ Stop \/ FinalizeAndStop \/ FinalizeAndStopReturns
    \/ \E l \in Loops : Step(l) \/ NodeFails(l)
    \/ Mine

(* Timers fire and the node answers, in any order.                              *)
Due == (\E l \in Loops : Step(l)) \/ StartAnswered \/ FinalizeAndStopReturns

Spec == Init /\ [][Next]_vars /\ WF_vars(Due)

--------------------------------------------------------------------------------
(* Every value is of its type.                                                  *)
TypeOK ==
    /\ RunnerType /\ height \in 0..Len(EventsIn) /\ filters \in Seq(Filter)
    /\ lastBlock \in 0..height /\ starting \subseteq 0..height /\ watching \in 0..height
    /\ fetch \in [Loops -> [type : Type \cup {"number", "none"}, rest : Seq(Filter)]]
    /\ reported \subseteq Filter \X Type \X (1..height)

(* The block number is read after the logs (BlockchainObserver.ts:25-29), so an *)
(* event can slip between the two.  It does not as long as no two blocks are    *)
(* mined during one tick: then every listener with a key has been called for    *)
(* every event of its key below lastBlock, over restarts and with two loops.    *)
NothingMissed ==
    ~crowded => \A i \in DOMAIN filters : \A t \in Type, b \in 1..(lastBlock - 1) :
        LET f == filters[i] IN
        b > since[f] /\ b > watching /\ Matches(f, t, b) => <<f, t, b>> \in reported

(* The logs of the last block are asked for again in every tick, so a listener  *)
(* is called for one event many times; but while one loop runs never for an     *)
(* event that is older than one it was called for (BlockchainObserver.ts:35).   *)
ReportedInOrder ==
    [][\A l \in Loops : FetchLogs(l) /\ ~doubled =>
          \A b \in Found(l), r \in reported :
              r[1] = Head(fetch[l].rest) /\ r[2] = fetch[l].type => b >= r[3]]_vars

(* After stop() every loop ends, also those left by earlier starts, and a call  *)
(* of finalizeAndStop made while a loop is alive returns, unless the observer is*)
(* started again or a tick throws (ObserverRunner.ts:10-17, 29-38).  Called when*)
(* no loop is alive finalizeAndStop never returns.                              *)
StopEnds ==
    /\ (state = "stop" /\ starting = {}) ~> (Live = {} \/ state # "stop" \/ starting # {})
    /\ (finalizing /\ Live # {})
          ~> (~finalizing \/ starting # {} \/ state = "running" \/ faults > 0)
================================================================================
