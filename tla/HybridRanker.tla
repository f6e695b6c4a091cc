---------------------------- MODULE HybridRanker ----------------------------
(***************************************************************************)
(* HybridRanker, the ranker of the production process, below the worker     *)
(* that calls it.  rank() starts a thread and returns: the thread asks the  *)
(* dictionaries, pushes a merged ranking, asks the language model if there  *)
(* is one, and pushes the ranking of everything.  It looks at its token at  *)
(* five places, and it is not joined: threads of earlier requests run on    *)
(* beside the present one, and only their tokens and sinks stop them.       *)
(*                                                                         *)
(* A thread is named by the id of its request.  Its sink is the channel of  *)
(* that request: sent[id] holds all that was pushed into it, and of the     *)
(* job's sink the worker has received the first `pushes` entries.           *)
(***************************************************************************)
EXTENDS RankerPort, MergeCandidates

CONSTANTS
    Answers,   \* what each backend may answer: sets of rows
    HitSets,   \* sets of surfaces the learning cache may answer
    TopK       \* DEFAULT_TOP_K, 10 in the code

\* The rankings a thread can push are among what the port allows.
Replacement(list) ==
    [kind |-> "Replace", rows |-> [i \in DOMAIN list |-> list[i].surface],
     from |-> 0, to |-> 0]

ASSUME AnswerAssumption ==
    /\ DOMAIN Order = Surfaces
    /\ DOMAIN Answers = {"sudachi", "vocab", "model"}
    /\ HitSets \subseteq SUBSET Surfaces
    /\ \A source \in DOMAIN Answers : \A answer \in Answers[source] :
         /\ IsFiniteSet(answer)
         /\ \A r \in answer : r.surface \in Surfaces /\ r.score \in Int
    /\ TopK \in Nat

\* Rows of the dictionary, of the user's vocabulary and of the model.
DictionaryRows(dict, user) == Weighted(dict, WeightDict) \cup Weighted(user, WeightDict)
WithModelRows(rows, llm) == rows \cup Weighted(llm, WeightLlm)

ASSUME PortAssumption ==
    /\ MaxPushes \geq 2
    /\ \A dict \in Answers["sudachi"], user \in Answers["vocab"], hits \in HitSets :
         LET rows == DictionaryRows(dict, user)
         IN  /\ Replacement(MergeRows(rows, hits, TopK)) \in Pushes
             /\ \A llm \in Answers["model"] :
                  Replacement(MergeRows(WithModelRows(rows, llm), hits, TopK)) \in Pushes

VARIABLES
    thread,   \* where the thread of each request is
    found,    \* a thread's copy of the reading, its weighted rows and cache hits
    sent,     \* the rankings pushed into the sink of each request
    hasLlm,   \* built by with_llm
    late      \* pushes into a sink after its token had fired (history)

rankerVars == <<thread, found, sent, hasLlm, late>>
vars == <<portVars, rankerVars>>

-----------------------------------------------------------------------------

\* The places where a thread looks at its token, and what comes after each.
Continue == [entry    |-> "dictionaries",
             asked    |-> "merged",
             merged   |-> "push",
             pushed   |-> "model",
             answered |-> "pushAgain"]

ThreadStates == DOMAIN Continue \cup {"none", "dictionaries", "push", "model",
                                      "pushAgain", "merged", "ended"}

NothingFound == [kana |-> <<>>, rows |-> {}, hits |-> {}]

RankerInit ==
    /\ thread = [id \in RequestIds |-> "none"]
    /\ found = [id \in RequestIds |-> NothingFound]
    /\ sent = [id \in RequestIds |-> <<>>]
    /\ hasLlm \in BOOLEAN
    /\ late = [id \in RequestIds |-> 0]

\* Mutant: one channel serves all requests.
PresentSink(id) == job.id

\* The channel a thread's sender belongs to: made for its own request.
SinkOf(id) == id

\* handle_one_request holds the receiver of the sink until it returns.
SinkOpen(id) == Working /\ job.id = SinkOf(id)

GoOn(id, where) ==
    /\ thread' = [thread EXCEPT ![id] = where]
    /\ UNCHANGED found

\* The closure returns, and drops what it holds.
Leave(id) ==
    /\ thread' = [thread EXCEPT ![id] = "ended"]
    /\ found' = [found EXCEPT ![id] = NothingFound]

\* Mutant: the token is not looked at before the model is asked.
CheckTokenTwice(id) ==
    /\ thread[id] \in DOMAIN Continue
    /\ IF IsCancelled(id) /\ thread[id] \in {"entry", "asked"}
       THEN Leave(id) ELSE GoOn(id, Continue[thread[id]])
    /\ UNCHANGED <<sent, hasLlm, late, portVars>>

CheckToken(id) ==
    /\ thread[id] \in DOMAIN Continue
    /\ IF IsCancelled(id) THEN Leave(id) ELSE GoOn(id, Continue[thread[id]])
    /\ UNCHANGED <<sent, hasLlm, late, portVars>>

\* Sudachi, the user's vocabulary and the learning cache, one after the other;
\* one that fails has nothing to say, and the others are asked all the same.
AskDictionaries(id) ==
    /\ thread[id] = "dictionaries"
    /\ \E dict \in Answers["sudachi"], user \in Answers["vocab"], hits \in HitSets :
         found' = [found EXCEPT ![id] =
                     [kana |-> @.kana, rows |-> DictionaryRows(dict, user), hits |-> hits]]
    /\ thread' = [thread EXCEPT ![id] = "asked"]
    /\ UNCHANGED <<sent, hasLlm, late, portVars>>

\* sink.send, and whether it was too late to be of use.
Push(id) ==
    /\ sent' = [sent EXCEPT ![SinkOf(id)] =
                  Append(@, [kana |-> found[id].kana,
                             list |-> MergeRows(found[id].rows, found[id].hits, TopK)])]
    /\ late' = [late EXCEPT ![id] = IF IsCancelled(id) THEN @ + 1 ELSE @]

\* Without a receiver, or without a model, the first push is the end.
PushDictionaries(id) ==
    /\ thread[id] = "push"
    /\ IF SinkOpen(id) THEN Push(id) ELSE UNCHANGED <<sent, late>>
    /\ IF SinkOpen(id) /\ hasLlm THEN GoOn(id, "pushed") ELSE Leave(id)
    /\ UNCHANGED <<hasLlm, portVars>>

\* Mutant: the second ranking is made of the model's rows alone.
AskModelAfresh(id) ==
    /\ thread[id] = "model"
    /\ \E llm \in Answers["model"] :
         found' = [found EXCEPT ![id].rows = WithModelRows({}, llm)]
    /\ thread' = [thread EXCEPT ![id] = "answered"]
    /\ UNCHANGED <<sent, hasLlm, late, portVars>>

\* The model's rows join those of the first ranking.
AskModel(id) ==
    /\ thread[id] = "model"
    /\ \E llm \in Answers["model"] :
         found' = [found EXCEPT ![id].rows = WithModelRows(@, llm)]
    /\ thread' = [thread EXCEPT ![id] = "answered"]
    /\ UNCHANGED <<sent, hasLlm, late, portVars>>

\* The model fails: the first ranking stands.
ModelFails(id) ==
    /\ thread[id] = "model"
    /\ Leave(id)
    /\ UNCHANGED <<sent, hasLlm, late, portVars>>

\* Mutant: the model is asked again after the second push.
PushCombinedAndRetry(id) ==
    /\ thread[id] = "pushAgain"
    /\ IF SinkOpen(id) THEN Push(id) ELSE UNCHANGED <<sent, late>>
    /\ IF SinkOpen(id) /\ Len(sent[id]) < 3 THEN GoOn(id, "pushed") ELSE Leave(id)
    /\ UNCHANGED <<hasLlm, portVars>>

PushCombined(id) ==
    /\ thread[id] = "pushAgain"
    /\ IF SinkOpen(id) THEN Push(id) ELSE UNCHANGED <<sent, late>>
    /\ Leave(id)
    /\ UNCHANGED <<hasLlm, portVars>>

\* A backend panics: the thread ends, and the sink goes with it.
ThreadPanics(id) ==
    /\ thread[id] \in {"dictionaries", "model"}
    /\ Leave(id)
    /\ UNCHANGED <<sent, hasLlm, late, portVars>>

ThreadStep(id) ==
    \/ CheckToken(id)
    \/ AskDictionaries(id)
    \/ PushDictionaries(id)
    \/ AskModel(id)
    \/ ModelFails(id)
    \/ PushCombined(id)
    \/ ThreadPanics(id)

-----------------------------------------------------------------------------
(***************************************************************************)
(* The worker above the ranker: rank() never fails, and a window receives   *)
(* what the job's own thread has pushed.                                    *)
(***************************************************************************)

RankSpawns ==
    /\ RankReturns
    /\ thread' = [thread EXCEPT ![job.id] = "entry"]
    /\ found' = [found EXCEPT ![job.id].kana = job.kana]
    /\ UNCHANGED <<sent, hasLlm, late, issued>>

\* A ranking in a sink, as rows of the worker.
RowsOf(ranking) == CandidatesFor(ranking.kana, Replacement(ranking.list).rows)

DrainSink ==
    /\ phase \in {"first", "second"}
    /\ ~IsCancelled(job.id)
    /\ pushes < Len(sent[job.id])
    /\ LET rows == RowsOf(sent[job.id][pushes + 1])
       IN  IF phase = "first"
           THEN buffer' = rows /\ UNCHANGED second
           ELSE second' = rows /\ UNCHANGED buffer
    /\ pushes' = pushes + 1
    /\ UNCHANGED <<phase, job, panics, channelVars, issued, rankerVars>>

\* The receiver of the job's sink is dropped with the job, and all it holds.
CloseSink ==
    sent' = IF Working /\ job' = NoJob THEN [sent EXCEPT ![job.id] = <<>>] ELSE sent

WorkerRunsOn ==
    /\ \/ WorkerReceive
       \/ CloseFirstWindow
       \/ CloseSecondWindow
       \/ WorkerPanics
       \/ WorkerExits
    /\ CloseSink
    /\ UNCHANGED <<issued, thread, found, hasLlm, late>>

-----------------------------------------------------------------------------

Init == PortInit /\ RankerInit

Next ==
    \/ EngineSide /\ UNCHANGED rankerVars
    \/ WorkerRunsOn
    \/ RankSpawns
    \/ DrainSink
    \/ \E id \in RequestIds : ThreadStep(id)

Spec == Init /\ [][Next]_vars

=============================================================================
