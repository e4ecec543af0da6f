----------------------------- MODULE AgentRunProofs -----------------------------
(***************************************************************************)
(* Proofs about AgentRun, for any operations, call identities and limits.  *)
(***************************************************************************)
EXTENDS AgentRun, SequenceTheorems, TLAPS

-----------------------------------------------------------------------------
(* The inductive invariant has two halves: one about the loop and its      *)
(* requests, one about the tools.                                          *)

LoopType ==
  /\ durable \in BOOLEAN /\ stopped \in BOOLEAN
  /\ place \in Resting \cup Working
  /\ iteration \in Nat /\ synthesis \in BOOLEAN
  /\ failing \in [Operations -> Nat]
  /\ attempt \in 0..RequestRetries /\ streaming \in BOOLEAN
  /\ failure \in {Fine} \cup Failures
  /\ requests \in 0..MaxRequests /\ retries \in 0..RunRetries
  /\ overBudget \in BOOLEAN /\ late \in BOOLEAN

(* Failures after which decide() never repeats a request.                  *)
Hopeless(f) ==
  \/ Stops(f) \/ f.phase = "partial" \/ f.kind = "budget_exceeded"
  \/ f.kind \in {"transport_error", "stream_interrupted", "invalid_request"} /\ f.phase = "no_output"

(* A request that was taken and not given back is on its way to an end: it *)
(* succeeded, or it failed in a way that is not retried.                   *)
TakenOnce ==
  /\ returned \in Nat /\ accepted \in {returned, returned + 1}
  /\ place \notin {"settle", "decide"} => accepted = returned
  /\ place = "decide" => failure # Fine
  /\ accepted # returned /\ failure # Fine =>
       \/ Hopeless(failure)
       \/ durable /\ place = "settle" /\ failure.kind = "provider_overloaded"
                  /\ failure.phase = "no_output"

(* A recovery under way is one that the limits allow.                      *)
RecoveryAllowed ==
  /\ place \in {"backoff", "recompacting"} => attempt < RequestRetries
  /\ place = "recompacting" => retries < RunRetries

LoopOK == LoopType /\ TakenOnce /\ RecoveryAllowed

ToolType ==
  /\ batch \in Seq(Calls)
  /\ earlier \subseteq Operations
  /\ attempts \subseteq Attempt /\ saved \subseteq Attempt
  /\ unresolved \in BOOLEAN
  /\ open \in [Operations -> Nat]

(* A dispatch that nobody knows the outcome of is remembered: in the       *)
(* attempts of this prompt and in what is saved of them, or as one of an   *)
(* earlier prompt.                                                         *)
Remembered(op, some) == op \in earlier \/ \E a \in some : a.op = op /\ a.status \in Uncertain
DispatchesKnown ==
  \A o \in Operations :
    /\ open[o] \in {0, 1}
    /\ open[o] = 1 => Remembered(o, attempts) /\ Remembered(o, saved)

(* The call that is being made.                                            *)
CurrentCall ==
  /\ place \in {"call", "started", "running", "reported"} => batch # <<>>
  /\ place \in {"started", "running"} =>
       Tried(Head(batch), "dispatched") \in attempts /\ Tried(Head(batch), "dispatched") \in saved
  /\ place = "started" => open[Head(batch).op] = 0
  /\ place = "running" => open[Head(batch).op] = 1

ToolOK == ToolType /\ DispatchesKnown /\ CurrentCall

IInv == LoopOK /\ ToolOK

LoopRest == <<durable, stopped, requestVars, budgetVars, loopVars>>

-----------------------------------------------------------------------------
LEMMA InitIInv == AgentInit => IInv
<1> SUFFICES ASSUME AgentInit PROVE IInv
  OBVIOUS
<1>1. LoopType
  <2>1. durable \in BOOLEAN /\ stopped \in BOOLEAN
    BY DEF AgentInit
  <2>2. place \in Resting \cup Working
    BY DEF AgentInit, Resting
  <2>3. iteration \in Nat /\ synthesis \in BOOLEAN
    BY DEF AgentInit
  <2>4. failing \in [Operations -> Nat]
    BY DEF AgentInit
  <2>5. attempt \in 0..RequestRetries /\ requests \in 0..MaxRequests /\ retries \in 0..RunRetries
    BY AgentConstants DEF AgentInit
  <2>6. streaming \in BOOLEAN /\ failure \in {Fine} \cup Failures
    BY DEF AgentInit
  <2>7. overBudget \in BOOLEAN /\ late \in BOOLEAN
    BY DEF AgentInit
  <2> QED
    BY <2>1, <2>2, <2>3, <2>4, <2>5, <2>6, <2>7 DEF LoopType
<1>2. TakenOnce /\ RecoveryAllowed
  BY DEF AgentInit, TakenOnce, RecoveryAllowed
<1>3. ToolType
  <2>1. batch = <<>> /\ unresolved = FALSE
    BY DEF AgentInit
  <2>2. open \in [Operations -> Nat]
    BY DEF AgentInit
  <2>3. earlier = {} /\ attempts = {} /\ saved = {}
    BY DEF AgentInit
  <2>4. <<>> \in Seq(Calls)
    OBVIOUS
  <2> QED
    BY <2>1, <2>2, <2>3, <2>4 DEF ToolType
<1>4. DispatchesKnown /\ CurrentCall
  BY DEF AgentInit, DispatchesKnown, CurrentCall
<1> QED
  BY <1>1, <1>2, <1>3, <1>4 DEF IInv, LoopOK, ToolOK

(* The end of a turn.                                                      *)
LEMMA EndsLoop ==
  ASSUME LoopType, NEW how \in Resting, Ends(how)
  PROVE  LoopOK'
<1>1. LoopType'
  <2>1. durable' \in BOOLEAN /\ stopped' \in BOOLEAN /\ place' \in Resting \cup Working
    BY DEF LoopType, Ends
  <2>2. iteration' \in Nat /\ synthesis' \in BOOLEAN
    BY DEF Ends
  <2>3. failing' \in [Operations -> Nat]
    BY DEF Ends
  <2>4. attempt' \in 0..RequestRetries /\ requests' \in 0..MaxRequests /\ retries' \in 0..RunRetries
    BY AgentConstants DEF Ends
  <2>5. streaming' \in BOOLEAN /\ failure' \in {Fine} \cup Failures
    BY DEF Ends
  <2>6. overBudget' \in BOOLEAN /\ late' \in BOOLEAN
    BY DEF Ends
  <2> QED
    BY <2>1, <2>2, <2>3, <2>4, <2>5, <2>6 DEF LoopType
<1>2. TakenOnce'
  BY DEF TakenOnce, Ends, Resting
<1>3. RecoveryAllowed'
  BY DEF RecoveryAllowed, Ends, Resting
<1> QED
  BY <1>1, <1>2, <1>3 DEF LoopOK

LEMMA SameTools ==
  ASSUME ToolOK, UNCHANGED toolVars, place' \notin {"call", "started", "running", "reported"}
  PROVE  ToolOK'
<1>1. UNCHANGED <<batch, earlier, attempts, saved, open, unresolved>>
  BY DEF toolVars
<1>2. ToolType' /\ DispatchesKnown'
  BY <1>1 DEF ToolOK, ToolType, DispatchesKnown, Remembered
<1>3. CurrentCall'
  BY DEF CurrentCall
<1> QED
  BY <1>2, <1>3 DEF ToolOK

LEMMA EndsSame ==
  ASSUME IInv, NEW how \in Resting, Ends(how), UNCHANGED toolVars
  PROVE  IInv'
<1>1. place' \notin {"call", "started", "running", "reported"}
  BY DEF Ends, Resting
<1> QED
  BY <1>1, EndsLoop, SameTools DEF IInv, LoopOK

(* Steps between places at which nothing was taken.                        *)
LEMMA SameLoop ==
  ASSUME LoopOK, UNCHANGED LoopRest, place \notin {"settle", "decide"},
         place' \in Resting \cup Working, place' \notin {"decide", "backoff", "recompacting"}
  PROVE  LoopOK'
<1>1. UNCHANGED <<durable, stopped, attempt, streaming, failure, accepted, returned, requests, retries,
                  overBudget, late, iteration, synthesis, failing>>
  BY DEF LoopRest, requestVars, budgetVars, loopVars
<1>2. LoopType'
  BY <1>1 DEF LoopOK, LoopType
<1>3. TakenOnce' /\ RecoveryAllowed'
  BY <1>1 DEF LoopOK, TakenOnce, RecoveryAllowed
<1> QED
  BY <1>2, <1>3 DEF LoopOK

-----------------------------------------------------------------------------
(* The loop.                                                               *)

LEMMA StartTurnStep ==
  ASSUME IInv, StartTurn
  PROVE  IInv'
<1>1. LoopOK /\ ToolOK /\ place \in Resting
  BY DEF IInv, StartTurn
<1>2. LoopOK'
  BY <1>1, SameLoop DEF StartTurn, Same, LoopRest, Resting, Working
<1>3. /\ attempts' = {} /\ saved' = {} /\ batch' = <<>> /\ UNCHANGED open /\ place' = "head"
      /\ {a.op : a \in {b \in attempts : b.status \in Uncertain}} \cup earlier \subseteq earlier'
      /\ earlier' \subseteq earlier \cup {a.op : a \in {b \in attempts : b.status \in Uncertain}}
                                   \cup {batch[i].op : i \in DOMAIN batch}
      /\ unresolved' = (durable /\ earlier' # {})
  BY DEF StartTurn
<1>4. earlier' \subseteq Operations
  <2>1. \A b \in attempts : b.op \in Operations
    BY <1>1 DEF ToolOK, ToolType, Attempt
  <2>2. \A i \in DOMAIN batch : batch[i].op \in Operations
    <3>1. \A i \in DOMAIN batch : batch[i] \in Calls
      BY <1>1 DEF ToolOK, ToolType
    <3> QED
      BY <3>1 DEF Calls
  <2>3. earlier \subseteq Operations
    BY <1>1 DEF ToolOK, ToolType
  <2> QED
    BY <1>3, <2>1, <2>2, <2>3
<1>5. ToolType'
  BY <1>1, <1>3, <1>4 DEF ToolOK, ToolType
<1>6. DispatchesKnown'
  <2> SUFFICES ASSUME NEW o \in Operations
               PROVE  open[o] \in {0, 1} /\ (open[o] = 1 => o \in earlier')
    BY <1>3 DEF DispatchesKnown, Remembered
  <2>1. open[o] \in {0, 1} /\ (open[o] = 1 => Remembered(o, attempts))
    BY <1>1 DEF ToolOK, DispatchesKnown
  <2> QED
    BY <2>1, <1>3 DEF Remembered
<1>7. CurrentCall'
  BY <1>3 DEF CurrentCall
<1> QED
  BY <1>2, <1>5, <1>6, <1>7 DEF IInv, ToolOK

LEMMA IterateStep ==
  ASSUME IInv, Iterate
  PROVE  IInv'
<1>1. /\ place = "head" /\ iteration' = iteration + 1 /\ synthesis' = Synthesis /\ place' = "prepare"
      /\ UNCHANGED <<durable, stopped, requestVars, budgetVars, failing, toolVars>>
  BY DEF Iterate
<1>2. UNCHANGED <<durable, stopped, attempt, streaming, failure, accepted, returned, requests, retries,
                  overBudget, late, failing>>
  BY <1>1 DEF requestVars, budgetVars
<1>3. synthesis' \in BOOLEAN
  BY <1>1 DEF Synthesis
<1>4. LoopType'
  BY <1>1, <1>2, <1>3 DEF IInv, LoopOK, LoopType, Working
<1>5. TakenOnce' /\ RecoveryAllowed'
  BY <1>1, <1>2 DEF IInv, LoopOK, TakenOnce, RecoveryAllowed
<1>6. ToolOK'
  BY <1>1, SameTools DEF IInv
<1> QED
  BY <1>4, <1>5, <1>6 DEF IInv, LoopOK

(* The steps that end the turn and leave the tools alone.                  *)
LEMMA EndSteps ==
  ASSUME IInv, \/ IterationsExhausted \/ Checkpointed \/ Complete \/ CompactionFails
               \/ RequestRefused \/ Refreshed \/ GiveUp \/ SaveFails
  PROVE  IInv'
<1>1. UNCHANGED toolVars
  BY DEF IterationsExhausted, Checkpointed, Complete, CompactionFails, RequestRefused, Refreshed,
         GiveUp, SaveFails
<1>2. Ends("blocked") \/ Ends("cancelled") \/ Ends("failed") \/ Ends("done")
  BY DEF IterationsExhausted, Checkpointed, Complete, CompactionFails, RequestRefused, Refreshed,
         GiveUp, SaveFails
<1> QED
  BY <1>1, <1>2, EndsSame DEF Resting

-----------------------------------------------------------------------------
(* One logical request.                                                    *)

LEMMA NewRequestStep ==
  ASSUME IInv, NewRequest
  PROVE  IInv'
<1>1. /\ attempt' = 0 /\ streaming' = TRUE /\ failure' = Fine /\ accepted' = 0 /\ returned' = 0
      /\ place' = "request"
      /\ UNCHANGED <<durable, stopped, requests, retries, overBudget, late, iteration, synthesis,
                     failing, toolVars>>
  BY DEF NewRequest, budgetVars, loopVars
<1>2. LoopType'
  BY <1>1, AgentConstants DEF IInv, LoopOK, LoopType, Working
<1>3. TakenOnce' /\ RecoveryAllowed'
  BY <1>1 DEF TakenOnce, RecoveryAllowed
<1>4. ToolOK'
  BY <1>1, SameTools DEF IInv
<1> QED
  BY <1>2, <1>3, <1>4 DEF IInv, LoopOK

LEMMA CompactStep ==
  ASSUME IInv, Compact
  PROVE  IInv'
<1>1. place = "prepare" /\ place' = "compacting" /\ UNCHANGED <<LoopRest, toolVars>>
  BY DEF Compact, Same, LoopRest
<1> QED
  BY <1>1, SameLoop, SameTools DEF IInv, Working

(* A counted request: the budget is not exhausted.                         *)
LEMMA Counted ==
  ASSUME LoopType, ~Exhausted, requests' = requests + 1
  PROVE  requests' \in 0..MaxRequests
  BY AgentConstants DEF LoopType, Exhausted

LEMMA SummaryStep ==
  ASSUME IInv, Summary
  PROVE  IInv'
<1>1. /\ place \in {"compacting", "recompacting"} /\ ~Exhausted /\ requests' = requests + 1
      /\ overBudget' \in {overBudget, TRUE}
      /\ UNCHANGED <<durable, place, stopped, attempt, streaming, failure, accepted, returned, retries, late,
                     iteration, synthesis, failing, toolVars>>
  BY DEF Summary, requestVars, loopVars
<1>2. LoopType /\ requests' \in 0..MaxRequests
  BY <1>1, Counted DEF IInv, LoopOK
<1>3. overBudget' \in BOOLEAN
  BY <1>1, <1>2 DEF LoopType
<1>4. LoopType'
  BY <1>1, <1>2, <1>3 DEF LoopType
<1>5. TakenOnce' /\ RecoveryAllowed'
  BY <1>1 DEF IInv, LoopOK, TakenOnce, RecoveryAllowed
<1>6. ToolOK'
  BY <1>1, SameTools DEF IInv
<1> QED
  BY <1>4, <1>5, <1>6 DEF IInv, LoopOK

LEMMA CompactedStep ==
  ASSUME IInv, Compacted
  PROVE  IInv'
<1>1. /\ place \in {"compacting", "recompacting"}
      /\ \/ place = "compacting" /\ place' = "prepared" /\ UNCHANGED retries
         \/ place = "recompacting" /\ place' = "backoff" /\ retries' = retries + 1
      /\ UNCHANGED <<durable, stopped, attempt, streaming, failure, accepted, returned, requests, overBudget,
                     late, iteration, synthesis, failing, toolVars>>
  BY DEF Compacted, requestVars, loopVars
<1>2. LoopType /\ RecoveryAllowed /\ TakenOnce
  BY DEF IInv, LoopOK
<1>3. retries' \in 0..RunRetries
  BY <1>1, <1>2, AgentConstants DEF LoopType, RecoveryAllowed
<1>4. LoopType'
  BY <1>1, <1>2, <1>3 DEF LoopType, Working
<1>5. TakenOnce' /\ RecoveryAllowed'
  BY <1>1, <1>2 DEF TakenOnce, RecoveryAllowed
<1>6. ToolOK'
  BY <1>1, SameTools DEF IInv
<1> QED
  BY <1>4, <1>5, <1>6 DEF IInv, LoopOK

LEMMA SubmitStep ==
  ASSUME IInv, Submit
  PROVE  IInv'
<1>1. /\ place = "request" /\ ~Exhausted /\ requests' = requests + 1 /\ place' = "sent"
      /\ UNCHANGED <<durable, stopped, attempt, streaming, failure, accepted, returned, retries, overBudget,
                     late, iteration, synthesis, failing, toolVars>>
  BY DEF Submit, requestVars, loopVars
<1>2. LoopType /\ requests' \in 0..MaxRequests
  BY <1>1, Counted DEF IInv, LoopOK
<1>3. LoopType'
  BY <1>1, <1>2 DEF LoopType, Working
<1>4. TakenOnce' /\ RecoveryAllowed'
  BY <1>1 DEF IInv, LoopOK, TakenOnce, RecoveryAllowed
<1>5. ToolOK'
  BY <1>1, SameTools DEF IInv
<1> QED
  BY <1>3, <1>4, <1>5 DEF IInv, LoopOK

-----------------------------------------------------------------------------
(* What becomes of a request in flight.                                    *)

LEMMA HeardStep ==
  ASSUME IInv, NEW kind \in Kinds \cup {"none"}, NEW phase \in Phases, NEW local \in BOOLEAN,
         NEW taken \in BOOLEAN, Heard(kind, phase, local, taken),
         taken /\ kind # "none" /\ ~GivesBack(kind, phase) =>
           \/ Hopeless([kind |-> kind, phase |-> phase, local |-> local])
           \/ durable /\ kind = "provider_overloaded" /\ phase = "no_output"
  PROVE  IInv'
<1> DEFINE f == [kind |-> kind, phase |-> phase, local |-> local]
           more == IF taken THEN 1 ELSE 0
           back == IF taken /\ GivesBack(kind, phase) THEN 1 ELSE 0
<1>1. /\ place = "sent" /\ place' = "settle"
      /\ failure' = IF kind = "none" THEN Fine ELSE f
      /\ accepted' = accepted + more /\ returned' = returned + back
      /\ UNCHANGED <<durable, stopped, attempt, streaming, requests, retries, overBudget, late,
                     iteration, synthesis, failing, toolVars>>
  BY DEF Heard, budgetVars, loopVars
<1>2. LoopType /\ TakenOnce
  BY DEF IInv, LoopOK
<1>3. accepted = returned /\ returned' \in Nat /\ accepted' = returned + more /\ returned' = returned + back
  BY <1>1, <1>2 DEF TakenOnce
<1>4. failure' \in {Fine} \cup Failures
  <2>1. kind # "none" => f \in Failures
    BY DEF Failures
  <2> QED
    BY <1>1, <2>1
<1>5. LoopType'
  BY <1>1, <1>2, <1>4 DEF LoopType, Working
<1>6. TakenOnce'
  <2>1. returned' \in Nat /\ accepted' \in {returned', returned' + 1}
    BY <1>2, <1>3 DEF TakenOnce
  <2>2. ASSUME accepted' # returned', failure' # Fine
        PROVE  \/ Hopeless(failure')
               \/ durable' /\ failure'.kind = "provider_overloaded" /\ failure'.phase = "no_output"
    <3>1. failure' = f /\ kind # "none" /\ taken /\ ~GivesBack(kind, phase)
      BY <1>1, <1>3, <2>2
    <3>2. f.kind = kind /\ f.phase = phase
      OBVIOUS
    <3>3. CASE Hopeless(f)
      BY <3>1, <3>3
    <3>4. CASE durable /\ kind = "provider_overloaded" /\ phase = "no_output"
      BY <1>1, <1>3, <2>2, <3>1, <3>2, <3>4
    <3> HIDE DEF f
    <3> QED
      BY <3>1, <3>3, <3>4 DEF f
  <2> QED
    BY <1>1, <2>1, <2>2 DEF TakenOnce
<1>7. RecoveryAllowed'
  BY <1>1 DEF RecoveryAllowed
<1>8. ToolOK'
  BY <1>1, SameTools DEF IInv
<1> QED
  BY <1>5, <1>6, <1>7, <1>8 DEF IInv, LoopOK

LEMMA ProviderSteps ==
  ASSUME IInv, Provider \/ Abandoned
  PROVE  IInv'
<1> USE DEF Hopeless, Stops, Denials, Kinds, Rejections, Phases, GivesBack
<1>1. CASE Answered
  BY <1>1, HeardStep DEF Answered
<1>2. CASE NotConnected
  BY <1>2, HeardStep DEF NotConnected
<1>3. CASE Unimplemented
  BY <1>3, HeardStep DEF Unimplemented
<1>4. CASE Rejected
  BY <1>4, HeardStep DEF Rejected
<1>5. CASE Overloaded
  BY <1>5, HeardStep DEF Overloaded
<1>6. CASE Lost
  BY <1>6, HeardStep DEF Lost
<1>7. CASE BrokenOff
  BY <1>7, HeardStep DEF BrokenOff
<1>8. CASE Abandoned
  <2>1. PICK phase \in {"no_output", "partial"}, taken \in BOOLEAN :
          Heard(IF stopped THEN "cancelled" ELSE "budget_exceeded", phase, FALSE, taken)
    BY <1>8 DEF Abandoned
  <2>2. CASE stopped
    BY <2>1, <2>2, HeardStep
  <2>3. CASE ~stopped
    BY <2>1, <2>3, HeardStep
  <2> QED
    BY <2>2, <2>3
<1> QED
  BY <1>1, <1>2, <1>3, <1>4, <1>5, <1>6, <1>7, <1>8 DEF Provider

LEMMA SettledStep ==
  ASSUME IInv, place = "settle", NEW outcome, outcome = failure \/ (failure = Fine /\ outcome = OverBudget),
         NEW spent \in BOOLEAN, Settled(outcome, spent)
  PROVE  IInv'
<1> DEFINE doubt == durable /\ outcome # Fine /\ ~Certain(outcome)
<1>1. LoopType /\ TakenOnce /\ ToolOK
  BY DEF IInv, LoopOK
<1>2. UNCHANGED <<batch, earlier, attempts, saved, open>> /\ unresolved' = (unresolved \/ doubt)
  BY DEF Settled
<1>3. place' \in Resting \cup {"response", "decide"}
  BY DEF Settled, Ends, Resting
<1>4. ToolOK'
  <2>1. ToolType'
    BY <1>1, <1>2 DEF ToolOK, ToolType
  <2>2. DispatchesKnown'
    BY <1>1, <1>2 DEF ToolOK, DispatchesKnown, Remembered
  <2>3. CurrentCall'
    BY <1>3 DEF CurrentCall, Resting
  <2> QED
    BY <2>1, <2>2, <2>3 DEF ToolOK
<1>5. CASE doubt
  <2>1. Ends(IF outcome.phase = "partial" THEN "blocked" ELSE "failed")
    BY <1>5 DEF Settled
  <2>2. (IF outcome.phase = "partial" THEN "blocked" ELSE "failed") \in Resting
    BY DEF Resting
  <2> QED
    BY <1>1, <1>4, <2>1, <2>2, EndsLoop DEF IInv
<1>6. CASE ~doubt
  <2>1. /\ failure' = outcome /\ overBudget' = spent
        /\ \/ /\ outcome = Fine /\ place' = "response" /\ attempt' = 0 /\ accepted' = 0
              /\ returned' = 0 /\ streaming' = TRUE
           \/ outcome # Fine /\ place' = "decide" /\ UNCHANGED <<attempt, accepted, returned, streaming>>
        /\ UNCHANGED <<durable, stopped, requests, retries, late, iteration, synthesis, failing>>
    BY <1>6 DEF Settled, loopVars
  <2>2. OverBudget \in Failures /\ Hopeless(OverBudget)
    BY DEF OverBudget, Failures, Kinds, Phases, Hopeless
  <2>3. failure' \in {Fine} \cup Failures
    BY <1>1, <2>1, <2>2 DEF LoopType
  <2>4. attempt' \in 0..RequestRetries /\ streaming' \in BOOLEAN
    <3>1. attempt \in 0..RequestRetries /\ streaming \in BOOLEAN
      BY <1>1 DEF LoopType
    <3>2. (attempt' = 0 /\ streaming' = TRUE) \/ (attempt' = attempt /\ streaming' = streaming)
      BY <2>1
    <3>3. 0 \in 0..RequestRetries
      BY AgentConstants
    <3>4. CASE attempt' = 0 /\ streaming' = TRUE
      BY <3>3, <3>4
    <3>5. CASE attempt' = attempt /\ streaming' = streaming
      BY <3>1, <3>5
    <3> QED
      BY <3>2, <3>4, <3>5
  <2>5. LoopType'
    BY <1>1, <2>1, <2>3, <2>4 DEF LoopType, Working
  <2>6. TakenOnce'
    <3>1. CASE outcome = Fine
      BY <2>1, <3>1 DEF TakenOnce
    <3>2. CASE outcome = OverBudget /\ outcome # Fine
      BY <1>1, <2>1, <2>2, <3>2 DEF TakenOnce
    <3>3. CASE outcome = failure /\ outcome # Fine
      <4>1. ASSUME accepted # returned PROVE Hopeless(outcome)
        <5>1. ~(durable /\ failure.kind = "provider_overloaded" /\ failure.phase = "no_output")
          BY <1>6, <3>3 DEF Certain, Rejections, Denials
        <5> QED
          BY <1>1, <3>3, <4>1, <5>1 DEF TakenOnce
      <4> QED
        BY <1>1, <2>1, <3>3, <4>1 DEF TakenOnce
    <3> QED
      BY <3>1, <3>2, <3>3
  <2>7. RecoveryAllowed'
    BY <2>1 DEF RecoveryAllowed
  <2> QED
    BY <1>4, <2>5, <2>6, <2>7 DEF IInv, LoopOK
<1> QED
  BY <1>5, <1>6

LEMMA SettleStep ==
  ASSUME IInv, Settle
  PROVE  IInv'
<1>1. place = "settle" /\ overBudget \in BOOLEAN
  BY DEF Settle, IInv, LoopOK, LoopType
<1>2. PICK spent \in {overBudget, TRUE} :
        Settled(failure, spent) \/ (failure = Fine /\ Settled(OverBudget, spent))
  BY DEF Settle
<1>3. spent \in BOOLEAN
  BY <1>1, <1>2
<1> QED
  BY <1>1, <1>2, <1>3, SettledStep

-----------------------------------------------------------------------------
(* decide() and what the loop makes of it.  A failure that is retried is   *)
(* not hopeless, so the request was not taken.                             *)

LEMMA NotHopeless ==
  ASSUME NEW f, Action(f) \in {"backoff", "refresh", "compact"}
  PROVE  ~Hopeless(f) /\ MayRetry
<1>1. /\ ~Stops(f) /\ f.phase # "partial" /\ f.kind # "budget_exceeded" /\ MayRetry
  BY DEF Action
<1>2. ~(f.kind \in {"transport_error", "stream_interrupted", "invalid_request"} /\ f.phase = "no_output")
  BY <1>1 DEF Action, Safe
<1> QED
  BY <1>1, <1>2 DEF Hopeless

LEMMA NotTaken ==
  ASSUME IInv, place = "decide", Action(failure) \in {"backoff", "refresh", "compact"}
  PROVE  accepted = returned /\ attempt < RequestRetries /\ retries < RunRetries
<1>1. ~Hopeless(failure) /\ MayRetry
  BY NotHopeless
<1>2. accepted = returned
  BY <1>1 DEF IInv, LoopOK, TakenOnce
<1> QED
  BY <1>1, <1>2 DEF MayRetry

LEMMA RecoverSteps ==
  ASSUME IInv, Retry \/ FallBack \/ Refresh \/ RecoverByCompaction
  PROVE  IInv'
<1>1. place = "decide" /\ Action(failure) \in {"backoff", "refresh", "compact"}
  BY DEF Retry, FallBack, Refresh, RecoverByCompaction
<1>2. accepted = returned /\ attempt < RequestRetries /\ retries < RunRetries
  BY <1>1, NotTaken
<1>3. /\ failure' = Fine /\ place' \in {"backoff", "refresh", "recompacting"}
      /\ retries' \in {retries, retries + 1} /\ (place' = "recompacting" => retries' = retries)
      /\ streaming' \in {streaming, FALSE}
      /\ UNCHANGED <<durable, stopped, attempt, accepted, returned, requests, overBudget, late, iteration,
                     synthesis, failing, toolVars>>
  BY DEF Retry, FallBack, Refresh, RecoverByCompaction, Recovering, budgetVars, loopVars
<1>4. LoopType
  BY DEF IInv, LoopOK
<1>5. retries' \in 0..RunRetries
  BY <1>2, <1>3, <1>4, AgentConstants DEF LoopType
<1>6. streaming' \in BOOLEAN
  BY <1>3, <1>4 DEF LoopType
<1>7. LoopType'
  BY <1>3, <1>4, <1>5, <1>6 DEF LoopType, Working
<1>8. TakenOnce' /\ RecoveryAllowed'
  <2>1. TakenOnce'
    <3>1. returned \in Nat
      BY DEF IInv, LoopOK, TakenOnce
    <3>2. failure' = Fine /\ place' # "decide"
      BY <1>3
    <3> QED
      BY <1>2, <1>3, <3>1, <3>2 DEF TakenOnce
  <2>2. RecoveryAllowed'
    BY <1>2, <1>3 DEF RecoveryAllowed
  <2> QED
    BY <2>1, <2>2
<1>9. ToolOK'
  BY <1>3, SameTools DEF IInv
<1> QED
  BY <1>7, <1>8, <1>9 DEF IInv, LoopOK

LEMMA BackoffStep ==
  ASSUME IInv, Backoff
  PROVE  IInv'
<1>1. /\ place = "backoff" /\ attempt' = attempt + 1 /\ place' = "request"
      /\ UNCHANGED <<durable, stopped, streaming, failure, accepted, returned, requests, retries, overBudget,
                     late, iteration, synthesis, failing, toolVars>>
  BY DEF Backoff, budgetVars, loopVars
<1>2. LoopType /\ RecoveryAllowed /\ TakenOnce
  BY DEF IInv, LoopOK
<1>3. attempt' \in 0..RequestRetries
  BY <1>1, <1>2, AgentConstants DEF LoopType, RecoveryAllowed
<1>4. LoopType'
  BY <1>1, <1>2, <1>3 DEF LoopType, Working
<1>5. TakenOnce' /\ RecoveryAllowed'
  BY <1>1, <1>2 DEF TakenOnce, RecoveryAllowed
<1>6. ToolOK'
  BY <1>1, SameTools DEF IInv
<1> QED
  BY <1>4, <1>5, <1>6 DEF IInv, LoopOK

(* Time and the user.                                                      *)
LEMMA OutsideSteps ==
  ASSUME IInv, TimePasses \/ UserCancels
  PROVE  IInv'
<1>1. /\ UNCHANGED <<durable, place, attempt, streaming, failure, accepted, returned, requests, retries,
                     overBudget, iteration, synthesis, failing, toolVars>>
      /\ late' \in {late, TRUE} /\ stopped' \in {stopped, TRUE}
  BY DEF TimePasses, UserCancels, requestVars, budgetVars, loopVars
<1>2. late' \in BOOLEAN /\ stopped' \in BOOLEAN
  BY <1>1 DEF IInv, LoopOK, LoopType
<1>3. LoopType'
  BY <1>1, <1>2 DEF IInv, LoopOK, LoopType
<1>4. TakenOnce' /\ RecoveryAllowed'
  BY <1>1 DEF IInv, LoopOK, TakenOnce, RecoveryAllowed
<1>5. ToolOK'
  BY <1>1 DEF IInv, ToolOK, ToolType, DispatchesKnown, CurrentCall, Remembered, toolVars
<1> QED
  BY <1>3, <1>4, <1>5 DEF IInv, LoopOK

-----------------------------------------------------------------------------
(* The response and its tool calls.                                        *)

LEMMA RespondStep ==
  ASSUME IInv, NEW calls \in Batches, Respond(calls)
  PROVE  IInv'
<1>1. /\ place = "response" /\ batch' = calls
      /\ place' = (IF calls = <<>> THEN "completion" ELSE "call")
      /\ UNCHANGED <<earlier, attempts, saved, open, unresolved, LoopRest>>
  BY DEF Respond, Same, LoopRest
<1>2. LoopOK'
  BY <1>1, SameLoop DEF IInv, Working
<1>3. calls \in Seq(Calls)
  BY DEF Batches
<1>4. ToolType' /\ DispatchesKnown'
  BY <1>1, <1>3 DEF IInv, ToolOK, ToolType, DispatchesKnown, Remembered
<1>5. CurrentCall'
  BY <1>1 DEF CurrentCall
<1> QED
  BY <1>2, <1>4, <1>5 DEF IInv, ToolOK

LEMMA CurrentIs ==
  ASSUME ToolOK, place \in {"call", "started", "running", "reported"}
  PROVE  /\ batch # <<>> /\ Head(batch) \in Calls /\ Head(batch).op \in Operations
         /\ Tail(batch) \in Seq(Calls)
         /\ \A status \in {"dispatched", "unknown", "blocked", "failed", "completed"} :
              /\ Tried(Head(batch), status) \in Attempt
              /\ Tried(Head(batch), status).op = Head(batch).op
              /\ Tried(Head(batch), status).status = status
<1>1. batch # <<>> /\ batch \in Seq(Calls)
  BY DEF ToolOK, ToolType, CurrentCall
<1>2. Head(batch) \in Calls /\ Tail(batch) \in Seq(Calls)
  BY <1>1
<1>3. Head(batch).op \in Operations /\ Head(batch).id \in CallIds
  BY <1>2 DEF Calls
<1> QED
  BY <1>1, <1>2, <1>3 DEF Tried, Attempt

(* The loop, when a call is done.                                          *)
LEMMA ProceedLoop ==
  ASSUME LoopOK, place \in {"call", "started", "running", "reported"},
         UNCHANGED <<durable, stopped, requestVars, budgetVars, iteration, synthesis>>,
         failing' \in [Operations -> Nat], place' \in {"head", "call"}
  PROVE  LoopOK'
<1>1. UNCHANGED <<durable, stopped, attempt, streaming, failure, accepted, returned, requests, retries,
                  overBudget, late, iteration, synthesis>>
  BY DEF requestVars, budgetVars
<1>2. LoopType'
  BY <1>1 DEF LoopOK, LoopType, Working
<1>3. TakenOnce' /\ RecoveryAllowed'
  BY <1>1 DEF LoopOK, TakenOnce, RecoveryAllowed
<1> QED
  BY <1>2, <1>3 DEF LoopOK

LEMMA FailedType ==
  ASSUME LoopType, NEW op \in Operations, Failed(op) \/ UNCHANGED failing
  PROVE  failing' \in [Operations -> Nat]
  BY DEF LoopType, Failed

(* What becomes of the batch when a call is done.                          *)
LEMMA Proceeded ==
  ASSUME ToolOK, place \in {"call", "started", "running", "reported"},
         \/ Proceed
         \/ batch' = <<>> /\ Ends("blocked")
  PROVE  /\ batch' \in Seq(Calls) /\ CurrentCall'
         /\ place' \in {"head", "call", "blocked"} /\ (Proceed => place' \in {"head", "call"})
<1>1. CASE batch' = <<>> /\ Ends("blocked")
  BY <1>1 DEF Ends, CurrentCall, Proceed
<1>2. CASE Proceed
  <2>1. batch' = Tail(batch) /\ place' = IF batch' = <<>> THEN "head" ELSE "call"
    BY <1>2 DEF Proceed
  <2> QED
    BY <2>1, CurrentIs DEF CurrentCall
<1> QED
  BY <1>1, <1>2

(* A call that is not made is added to the attempts, and saved.            *)
LEMMA AddedTools ==
  ASSUME ToolOK, place = "call", NEW status \in {"blocked", "failed"},
         attempts' = attempts \cup {Tried(Head(batch), status)}, saved' = attempts',
         UNCHANGED <<earlier, open>>, unresolved' \in BOOLEAN, batch' \in Seq(Calls), CurrentCall'
  PROVE  ToolOK'
<1>1. Tried(Head(batch), status) \in Attempt
  BY CurrentIs
<1>2. ToolType'
  BY <1>1 DEF ToolOK, ToolType
<1>3. DispatchesKnown'
  <2> SUFFICES ASSUME NEW o \in Operations
               PROVE  open[o] \in {0, 1} /\ (open[o] = 1 => Remembered(o, attempts)')
    BY DEF DispatchesKnown, Remembered
  <2>1. open[o] \in {0, 1} /\ (open[o] = 1 => Remembered(o, attempts))
    BY DEF ToolOK, DispatchesKnown
  <2>2. attempts \subseteq attempts'
    OBVIOUS
  <2> QED
    BY <2>1, <2>2 DEF Remembered
<1> QED
  BY <1>2, <1>3 DEF ToolOK

LEMMA RefuseStep ==
  ASSUME IInv, Refuse
  PROVE  IInv'
<1> DEFINE c == Head(batch)
<1>1. /\ place = "call" /\ attempts' = attempts \cup {Tried(c, "blocked")} /\ saved' = attempts'
      /\ unresolved' = (unresolved \/ (durable /\ Doubtful(c.op)))
      /\ UNCHANGED <<earlier, open>>
      /\ (Proceed /\ Failed(c.op)) \/ (batch' = <<>> /\ Ends("blocked"))
  BY DEF Refuse
<1>2. ToolOK /\ LoopOK /\ LoopType
  BY DEF IInv, LoopOK
<1>3. batch' \in Seq(Calls) /\ CurrentCall' /\ (Proceed => place' \in {"head", "call"})
  BY <1>1, <1>2, Proceeded
<1>4. unresolved' \in BOOLEAN
  BY <1>1
<1>5. ToolOK'
  BY <1>1, <1>2, <1>3, <1>4, AddedTools
<1>6. LoopOK'
  <2>1. CASE Proceed /\ Failed(c.op)
    <3>1. c.op \in Operations
      BY <1>1, <1>2, CurrentIs
    <3>2. failing' \in [Operations -> Nat]
      BY <1>2, <2>1, <3>1, FailedType
    <3> QED
      BY <1>1, <1>2, <1>3, <2>1, <3>2, ProceedLoop DEF Proceed
  <2>2. CASE Ends("blocked")
    BY <1>2, <2>2, EndsLoop DEF Resting
  <2> QED
    BY <1>1, <2>1, <2>2
<1> QED
  BY <1>5, <1>6 DEF IInv

LEMMA BadArgumentsStep ==
  ASSUME IInv, BadArguments
  PROVE  IInv'
<1> DEFINE c == Head(batch)
<1>1. /\ place = "call" /\ attempts' = attempts \cup {Tried(c, "failed")} /\ saved' = attempts'
      /\ UNCHANGED <<earlier, open, unresolved>> /\ Proceed /\ Failed(c.op)
  BY DEF BadArguments
<1>2. ToolOK /\ LoopOK /\ LoopType /\ unresolved \in BOOLEAN
  BY DEF IInv, LoopOK, ToolOK, ToolType
<1>3. batch' \in Seq(Calls) /\ CurrentCall' /\ place' \in {"head", "call"}
  BY <1>1, <1>2, Proceeded
<1>4. ToolOK'
  BY <1>1, <1>2, <1>3, AddedTools
<1>5. c.op \in Operations
  BY <1>1, <1>2, CurrentIs
<1>6. failing' \in [Operations -> Nat]
  BY <1>1, <1>2, <1>5, FailedType
<1>7. LoopOK'
  BY <1>1, <1>2, <1>3, <1>6, ProceedLoop DEF Proceed
<1> QED
  BY <1>4, <1>7 DEF IInv

LEMMA AnnounceStep ==
  ASSUME IInv, Announce
  PROVE  IInv'
<1> DEFINE c == Head(batch)
           entry == Tried(c, "dispatched")
<1>1. /\ place = "call" /\ ~Refused(c) /\ attempts' = attempts \cup {entry}
      /\ UNCHANGED <<batch, earlier, open, unresolved>>
      /\ \/ saved' = attempts' /\ place' = "started" /\ Same
         \/ UNCHANGED saved /\ Ends("failed")
  BY DEF Announce
<1>2. ToolOK /\ LoopOK /\ LoopType
  BY DEF IInv, LoopOK
<1>3. /\ entry \in Attempt /\ entry.op = c.op /\ entry.status = "dispatched"
      /\ c.op \in Operations /\ batch # <<>>
  BY <1>1, <1>2, CurrentIs
<1>4. open[c.op] = 0
  <2>1. ~Remembered(c.op, attempts)
    BY <1>1 DEF Refused, Doubtful, Before, Remembered
  <2> QED
    BY <1>2, <1>3, <2>1 DEF ToolOK, DispatchesKnown
<1>5. ToolType'
  BY <1>1, <1>2, <1>3 DEF ToolOK, ToolType
<1>6. DispatchesKnown'
  <2> SUFFICES ASSUME NEW o \in Operations
               PROVE  /\ open[o] \in {0, 1}
                      /\ open[o] = 1 => Remembered(o, attempts)' /\ Remembered(o, saved)'
    BY <1>1 DEF DispatchesKnown
  <2>1. /\ open[o] \in {0, 1}
        /\ open[o] = 1 => Remembered(o, attempts) /\ Remembered(o, saved)
    BY <1>2 DEF ToolOK, DispatchesKnown
  <2>2. attempts \subseteq attempts' /\ (saved' = attempts' \/ saved' = saved)
    BY <1>1
  <2> QED
    BY <1>1, <2>1, <2>2 DEF Remembered
<1>7. CASE saved' = attempts' /\ place' = "started" /\ Same
  <2>1. CurrentCall'
    BY <1>1, <1>3, <1>4, <1>7 DEF CurrentCall, Tried
  <2>2. LoopOK'
    BY <1>1, <1>2, <1>7, SameLoop DEF Same, LoopRest, Working
  <2> QED
    BY <1>5, <1>6, <2>1, <2>2 DEF IInv, ToolOK
<1>8. CASE Ends("failed")
  <2>1. CurrentCall'
    BY <1>8 DEF CurrentCall, Ends
  <2>2. LoopOK'
    BY <1>2, <1>8, EndsLoop DEF Resting
  <2> QED
    BY <1>5, <1>6, <2>1, <2>2 DEF IInv, ToolOK
<1> QED
  BY <1>1, <1>7, <1>8

(* The outcome replaces the announcement of the call, and of no other.     *)
LEMMA OutcomeIs ==
  ASSUME ToolOK, place \in {"started", "running"}, UNCHANGED earlier,
         NEW status \in {"unknown", "failed", "completed"}, Outcome(status)
  PROVE  /\ attempts' \subseteq Attempt
         /\ \A o : o # Head(batch).op /\ Remembered(o, attempts) => Remembered(o, attempts)'
         /\ status = "unknown" => \A o : o = Head(batch).op => Remembered(o, attempts)'
<1> DEFINE c == Head(batch)
           entry == Tried(c, status)
           announced == Tried(c, "dispatched")
<1>1. /\ entry \in Attempt /\ entry.op = c.op /\ entry.status = status
      /\ announced.op = c.op
  BY CurrentIs
<1>2. attempts' = (attempts \ {announced}) \cup {entry} /\ attempts \subseteq Attempt
  BY DEF Outcome, ToolOK, ToolType
<1> HIDE DEF entry, announced
<1>3. attempts' \subseteq Attempt
  BY <1>1, <1>2
<1>4. ASSUME NEW o, o # c.op, Remembered(o, attempts) PROVE Remembered(o, attempts)'
  <2>1. CASE o \in earlier
    BY <2>1 DEF Remembered
  <2>2. CASE \E a \in attempts : a.op = o /\ a.status \in Uncertain
    BY <1>1, <1>2, <1>4, <2>2 DEF Remembered
  <2> QED
    BY <1>4, <2>1, <2>2 DEF Remembered
<1>5. ASSUME status = "unknown"
      PROVE  \A o : o = c.op => o \in earlier' \/ \E a \in attempts' : a.op = o /\ a.status \in Uncertain
  <2>1. entry \in attempts' /\ entry.status \in Uncertain
    BY <1>1, <1>2, <1>5 DEF Uncertain
  <2> QED
    BY <1>1, <2>1
<1>6. status = "unknown" => \A o : o = c.op => Remembered(o, attempts)'
  BY <1>5 DEF Remembered
<1> QED
  BY <1>3, <1>4, <1>6

LEMMA NotStartedStep ==
  ASSUME IInv, NotStarted
  PROVE  IInv'
<1> DEFINE c == Head(batch)
<1>1. /\ place = "started" /\ Outcome("failed") /\ saved' = attempts'
      /\ UNCHANGED <<earlier, open, unresolved>>
      /\ (batch' = <<>> /\ Ends("blocked")) \/ (Proceed /\ UNCHANGED failing)
  BY DEF NotStarted
<1>2. ToolOK /\ LoopOK /\ LoopType
  BY DEF IInv, LoopOK
<1>3. /\ attempts' \subseteq Attempt
      /\ \A o : o # c.op /\ Remembered(o, attempts) => Remembered(o, attempts)'
  BY <1>1, <1>2, OutcomeIs
<1>4. batch' \in Seq(Calls) /\ CurrentCall' /\ (Proceed => place' \in {"head", "call"})
  BY <1>1, <1>2, Proceeded
<1>5. ToolType'
  <2>1. earlier \subseteq Operations /\ unresolved \in BOOLEAN /\ open \in [Operations -> Nat]
    BY <1>2 DEF ToolOK, ToolType
  <2>2. saved' \subseteq Attempt
    BY <1>1, <1>3
  <2> QED
    BY <1>1, <1>3, <1>4, <2>1, <2>2 DEF ToolType
<1>6. DispatchesKnown'
  <2> SUFFICES ASSUME NEW o \in Operations
               PROVE  /\ open[o] \in {0, 1}
                      /\ open[o] = 1 => Remembered(o, attempts)'
    BY <1>1 DEF DispatchesKnown, Remembered
  <2>1. open[o] \in {0, 1} /\ (open[o] = 1 => Remembered(o, attempts)) /\ open[c.op] = 0
    BY <1>1, <1>2 DEF ToolOK, DispatchesKnown, CurrentCall
  <2> QED
    BY <1>3, <2>1
<1>7. LoopOK'
  <2>1. CASE Proceed /\ UNCHANGED failing
    <3>1. failing' \in [Operations -> Nat]
      BY <1>2, <2>1 DEF LoopType
    <3> QED
      BY <1>1, <1>2, <1>4, <2>1, <3>1, ProceedLoop DEF Proceed
  <2>2. CASE Ends("blocked")
    BY <1>2, <2>2, EndsLoop DEF Resting
  <2> QED
    BY <1>1, <2>1, <2>2
<1> QED
  BY <1>4, <1>5, <1>6, <1>7 DEF IInv, ToolOK

LEMMA DispatchStep ==
  ASSUME IInv, Dispatch
  PROVE  IInv'
<1> DEFINE op == Head(batch).op
<1>1. /\ place = "started" /\ open' = [open EXCEPT ![op] = @ + 1] /\ place' = "running"
      /\ UNCHANGED <<batch, earlier, attempts, saved, unresolved, LoopRest>>
  BY DEF Dispatch, Same, LoopRest
<1>2. ToolOK /\ LoopOK /\ open \in [Operations -> Nat]
  BY DEF IInv, ToolOK, ToolType
<1>3. op \in Operations /\ open[op] = 0 /\ batch # <<>>
  BY <1>1, <1>2, CurrentIs DEF ToolOK, CurrentCall
<1>4. open'[op] = 1 /\ \A o \in Operations : o # op => open'[o] = open[o]
  BY <1>1, <1>2, <1>3
<1>5. ToolType'
  BY <1>1, <1>2, <1>3 DEF ToolOK, ToolType
<1>6. DispatchesKnown'
  <2> SUFFICES ASSUME NEW o \in Operations
               PROVE  /\ open'[o] \in {0, 1}
                      /\ open'[o] = 1 => Remembered(o, attempts) /\ Remembered(o, saved)
    BY <1>1 DEF DispatchesKnown, Remembered
  <2>1. CASE o = op
    <3>1. /\ Tried(Head(batch), "dispatched") \in attempts /\ Tried(Head(batch), "dispatched") \in saved
          /\ Tried(Head(batch), "dispatched").op = op
          /\ Tried(Head(batch), "dispatched").status = "dispatched"
      BY <1>1, <1>2, CurrentIs DEF ToolOK, CurrentCall
    <3> QED
      BY <1>4, <2>1, <3>1 DEF Remembered, Uncertain
  <2>2. CASE o # op
    BY <1>2, <1>4, <2>2 DEF ToolOK, DispatchesKnown
  <2> QED
    BY <2>1, <2>2
<1>7. CurrentCall'
  BY <1>1, <1>2, <1>3, <1>4 DEF ToolOK, CurrentCall, Tried
<1>8. LoopOK'
  BY <1>1, <1>2, SameLoop DEF Working
<1> QED
  BY <1>5, <1>6, <1>7, <1>8 DEF IInv, ToolOK

LEMMA AnswersStep ==
  ASSUME IInv, NEW status \in {"completed", "failed"}, ToolAnswers(status)
  PROVE  IInv'
<1> DEFINE op == Head(batch).op
<1>1. /\ place = "running" /\ Outcome(status) /\ open' = [open EXCEPT ![op] = @ - 1]
      /\ place' = "reported"
      /\ UNCHANGED <<batch, earlier, saved, unresolved, LoopRest>>
  BY DEF ToolAnswers, Same, LoopRest
<1>2. ToolOK /\ LoopOK /\ open \in [Operations -> Nat]
  BY DEF IInv, ToolOK, ToolType
<1>3. op \in Operations /\ open[op] = 1 /\ batch # <<>>
  BY <1>1, <1>2, CurrentIs DEF ToolOK, CurrentCall
<1>4. open'[op] = 0 /\ (\A o \in Operations : o # op => open'[o] = open[o])
      /\ open' \in [Operations -> Nat]
  BY <1>1, <1>2, <1>3
<1>5. /\ attempts' \subseteq Attempt
      /\ \A o : o # op /\ Remembered(o, attempts) => Remembered(o, attempts)'
  BY <1>1, <1>2, OutcomeIs
<1>6. ToolType'
  BY <1>1, <1>2, <1>4, <1>5 DEF ToolOK, ToolType
<1>7. DispatchesKnown'
  <2> SUFFICES ASSUME NEW o \in Operations
               PROVE  /\ open'[o] \in {0, 1}
                      /\ open'[o] = 1 => Remembered(o, attempts)' /\ Remembered(o, saved)'
    BY DEF DispatchesKnown
  <2>1. CASE o = op
    BY <1>4, <2>1
  <2>2. CASE o # op
    <3>1. /\ open[o] \in {0, 1}
          /\ open[o] = 1 => Remembered(o, attempts) /\ Remembered(o, saved)
      BY <1>2 DEF ToolOK, DispatchesKnown
    <3>2. Remembered(o, saved) => Remembered(o, saved)'
      BY <1>1 DEF Remembered
    <3> QED
      BY <1>4, <1>5, <2>2, <3>1, <3>2
  <2> QED
    BY <2>1, <2>2
<1>8. CurrentCall'
  BY <1>1, <1>3 DEF CurrentCall
<1>9. LoopOK'
  BY <1>1, <1>2, SameLoop DEF Working
<1> QED
  BY <1>6, <1>7, <1>8, <1>9 DEF IInv, ToolOK

(* A tool whose outcome is unknown: an unknown attempt remembers it.       *)
LEMMA UnknownTools ==
  ASSUME ToolOK, place = "running", Outcome("unknown"), saved' \in {saved, attempts'},
         UNCHANGED <<batch, earlier, open>>, unresolved' \in BOOLEAN,
         place' \notin {"call", "started", "running"}
  PROVE  ToolOK'
<1> DEFINE op == Head(batch).op
<1>1. /\ attempts' \subseteq Attempt
      /\ \A o : Remembered(o, attempts) => Remembered(o, attempts)'
  BY OutcomeIs
<1>2. ToolType'
  <2>1. saved' \subseteq Attempt
    BY <1>1 DEF ToolOK, ToolType
  <2> QED
    BY <1>1, <2>1 DEF ToolOK, ToolType
<1>3. DispatchesKnown'
  <2> SUFFICES ASSUME NEW o \in Operations
               PROVE  /\ open[o] \in {0, 1}
                      /\ open[o] = 1 => Remembered(o, attempts)' /\ Remembered(o, saved)'
    BY DEF DispatchesKnown
  <2>1. /\ open[o] \in {0, 1}
        /\ open[o] = 1 => Remembered(o, attempts) /\ Remembered(o, saved)
    BY DEF ToolOK, DispatchesKnown
  <2>2. Remembered(o, attempts) => Remembered(o, attempts)'
    BY <1>1
  <2>3. CASE saved' = saved
    BY <2>1, <2>2, <2>3 DEF Remembered
  <2>4. CASE saved' = attempts'
    BY <2>1, <2>2, <2>4 DEF Remembered
  <2> QED
    BY <2>3, <2>4
<1>4. CurrentCall'
  BY DEF ToolOK, CurrentCall
<1> QED
  BY <1>2, <1>3, <1>4 DEF ToolOK

LEMMA UnknownStep ==
  ASSUME IInv, ToolUnknown
  PROVE  IInv'
<1>1. /\ place = "running" /\ Outcome("unknown") /\ place' = "reported"
      /\ unresolved' = (unresolved \/ durable)
      /\ UNCHANGED <<batch, earlier, saved, open, LoopRest>>
  BY DEF ToolUnknown, Same, LoopRest
<1>2. unresolved' \in BOOLEAN
  BY <1>1
<1>3. ToolOK'
  BY <1>1, <1>2, UnknownTools DEF IInv
<1>4. LoopOK'
  BY <1>1, SameLoop DEF IInv, Working
<1> QED
  BY <1>3, <1>4 DEF IInv

LEMMA CancelledStep ==
  ASSUME IInv, ToolCancelled
  PROVE  IInv'
<1>1. /\ place = "running" /\ Outcome("unknown") /\ saved' = attempts' /\ Ends("cancelled")
      /\ UNCHANGED <<batch, earlier, open, unresolved>>
  BY DEF ToolCancelled
<1>2. unresolved' \in BOOLEAN
  BY <1>1 DEF IInv, ToolOK, ToolType
<1>3. place' \notin {"call", "started", "running"}
  BY <1>1 DEF Ends
<1>4. ToolOK'
  BY <1>1, <1>2, <1>3, UnknownTools DEF IInv
<1>5. LoopOK'
  BY <1>1, EndsLoop DEF IInv, LoopOK, Resting
<1> QED
  BY <1>4, <1>5 DEF IInv

LEMMA ReportStep ==
  ASSUME IInv, Report
  PROVE  IInv'
<1> DEFINE c == Head(batch)
<1>1. /\ place = "reported" /\ saved' = attempts
      /\ UNCHANGED <<earlier, attempts, open, unresolved>>
      /\ \/ Proceed /\ (UNCHANGED failing \/ Failed(c.op))
         \/ batch' = <<>> /\ Ends("blocked")
  BY DEF Report
<1>2. ToolOK /\ LoopOK /\ LoopType
  BY DEF IInv, LoopOK
<1>3. batch' \in Seq(Calls) /\ CurrentCall' /\ (Proceed => place' \in {"head", "call"})
  BY <1>1, <1>2, Proceeded
<1>4. ToolOK'
  <2>1. ToolType'
    BY <1>1, <1>2, <1>3 DEF ToolOK, ToolType
  <2>2. DispatchesKnown'
    BY <1>1, <1>2 DEF ToolOK, DispatchesKnown, Remembered
  <2> QED
    BY <1>3, <2>1, <2>2 DEF ToolOK
<1>5. LoopOK'
  <2>1. CASE Proceed /\ (UNCHANGED failing \/ Failed(c.op))
    <3>1. c.op \in Operations
      BY <1>1, <1>2, CurrentIs
    <3>2. failing' \in [Operations -> Nat]
      BY <1>2, <2>1, <3>1, FailedType
    <3> QED
      BY <1>1, <1>2, <1>3, <2>1, <3>2, ProceedLoop DEF Proceed
  <2>2. CASE Ends("blocked")
    BY <1>2, <2>2, EndsLoop DEF Resting
  <2> QED
    BY <1>1, <2>1, <2>2
<1> QED
  BY <1>4, <1>5 DEF IInv

(* What was saved is enough to know the dispatches by.                     *)
LEMMA CrashStep ==
  ASSUME IInv, Crash
  PROVE  IInv'
<1>1. /\ attempts' = saved /\ batch' \in {<<>>, batch} /\ Ends("failed")
      /\ UNCHANGED <<earlier, saved, open, unresolved>>
  BY DEF Crash
<1>2. ToolOK /\ LoopType
  BY DEF IInv, LoopOK
<1>3. batch' \in Seq(Calls)
  <2>1. batch \in Seq(Calls) /\ <<>> \in Seq(Calls)
    BY <1>2 DEF ToolOK, ToolType
  <2> QED
    BY <1>1, <2>1
<1>4. ToolType'
  BY <1>1, <1>2, <1>3 DEF ToolOK, ToolType
<1>5. DispatchesKnown'
  BY <1>1, <1>2 DEF ToolOK, DispatchesKnown, Remembered
<1>6. CurrentCall'
  BY <1>1 DEF CurrentCall, Ends
<1>7. LoopOK'
  BY <1>1, <1>2, EndsLoop DEF Resting
<1> QED
  BY <1>4, <1>5, <1>6, <1>7 DEF IInv, ToolOK

-----------------------------------------------------------------------------
LEMMA NextIInv == IInv /\ [AgentNext]_agentVars => IInv'
<1> SUFFICES ASSUME IInv, [AgentNext]_agentVars PROVE IInv'
  OBVIOUS
<1>1. CASE UNCHANGED agentVars
  <2>1. UNCHANGED <<place, toolVars, durable, stopped, attempt, streaming, failure, accepted, returned,
                    requests, retries, overBudget, late, iteration, synthesis, failing>>
    BY <1>1 DEF agentVars, requestVars, budgetVars, loopVars
  <2>2. LoopType'
    BY <2>1 DEF IInv, LoopOK, LoopType
  <2>3. TakenOnce' /\ RecoveryAllowed'
    BY <2>1 DEF IInv, LoopOK, TakenOnce, RecoveryAllowed
  <2>4. ToolOK'
    BY <2>1 DEF IInv, ToolOK, ToolType, DispatchesKnown, CurrentCall, Remembered, toolVars
  <2> QED
    BY <2>2, <2>3, <2>4 DEF IInv, LoopOK
<1>2. CASE StartTurn
  BY <1>2, StartTurnStep
<1>3. CASE Loop
  BY <1>3, IterateStep, EndSteps, RespondStep DEF Loop
<1>4. CASE Request
  BY <1>4, NewRequestStep, CompactStep, SummaryStep, CompactedStep, SubmitStep, ProviderSteps,
     SettleStep, EndSteps DEF Request
<1>5. CASE Recover
  BY <1>5, RecoverSteps, BackoffStep, EndSteps DEF Recover
<1>6. CASE CallTools
  BY <1>6, RefuseStep, BadArgumentsStep, AnnounceStep, NotStartedStep, DispatchStep, UnknownStep,
     CancelledStep, ReportStep DEF CallTools, ToolTimesOut
<1>7. CASE Provider
  BY <1>7, ProviderSteps
<1>8. CASE Tool
  BY <1>8, UnknownStep, AnswersStep DEF Tool
<1>9. CASE SaveFails
  BY <1>9, EndSteps
<1>10. CASE TimePasses \/ UserCancels
  BY <1>10, OutsideSteps
<1>11. CASE Crash
  BY <1>11, CrashStep
<1> QED
  BY <1>1, <1>2, <1>3, <1>4, <1>5, <1>6, <1>7, <1>8, <1>9, <1>10, <1>11 DEF AgentNext

LEMMA AlwaysIInv == AgentSpec => []IInv
  BY InitIInv, NextIInv, PTL DEF AgentSpec

-----------------------------------------------------------------------------
(* The variables keep their types: no limit on requests, retries or        *)
(* attempts is passed.                                                     *)
THEOREM AgentTypeCorrect == AgentSpec => []AgentTypeOK
<1>1. ASSUME IInv PROVE AgentTypeOK
  <2>1. LoopType /\ ToolType /\ accepted \in Nat /\ returned \in Nat
    BY <1>1 DEF IInv, LoopOK, ToolOK, TakenOnce
  <2> QED
    BY <2>1 DEF AgentTypeOK, LoopType, ToolType
<1> QED
  BY <1>1, AlwaysIInv, PTL

(* A logical request is taken once at most, however it is retried, but for *)
(* those the provider gave back itself before any output.                  *)
THEOREM RequestsAcceptedOnce == AgentSpec => []AcceptedOnce
<1>1. IInv => AcceptedOnce
  BY DEF IInv, LoopOK, TakenOnce, AcceptedOnce
<1> QED
  BY <1>1, AlwaysIInv, PTL

(* No operation is dispatched while an earlier dispatch of it is in doubt, *)
(* in whatever prompt, and whenever the process died.                      *)
THEOREM UnknownsAreNotRepeated == AgentSpec => []UnknownNotRepeated
<1>1. IInv => UnknownNotRepeated
  BY DEF IInv, ToolOK, DispatchesKnown, UnknownNotRepeated
<1> QED
  BY <1>1, AlwaysIInv, PTL
-----------------------------------------------------------------------------
(* How a turn ends.  Neither the provider nor a tool has to answer; once   *)
(* the time is over no retry, summary or request is begun, and each step   *)
(* uses up something, so that the turn ends after finitely many whichever  *)
(* they are.  StepsLeft bounds how many: four for every call that has no   *)
(* result yet, and what the rest of the loop needs.                        *)

Left(at, calls) ==
  CASE at \in Resting -> 0
    [] at \in {"request", "refresh", "completion"} -> 1
    [] at \in {"prepared", "backoff"} -> 2
    [] at \in {"prepare", "compacting", "recompacting"} -> 3
    [] at \in {"head", "decide"} -> 4
    [] at = "reported" -> 4 * calls + 1
    [] at = "running"  -> 4 * calls + 2
    [] at = "started"  -> 4 * calls + 3
    [] at = "call"     -> 4 * calls + 4
    [] at = "response" -> 4 * MaxCalls + 5
    [] at = "settle"   -> 4 * MaxCalls + 6
    [] at = "sent"     -> 4 * MaxCalls + 7
StepsLeft == Left(place, Len(batch)) + (IF stopped THEN 0 ELSE 1)

RunsOut == late /\ place \in Working => place' \in Resting \/ (late' /\ StepsLeft' < StepsLeft)

(* A step towards the end, which is not the user's.                        *)
Down ==
  /\ late' = late /\ stopped' = stopped
  /\ Left(place', Len(batch')) < Left(place, Len(batch))

LEMMA LeftIs ==
  ASSUME NEW n \in Nat
  PROVE  /\ \A at \in {"request", "refresh", "completion"} : Left(at, n) = 1
         /\ \A at \in {"prepared", "backoff"} : Left(at, n) = 2
         /\ \A at \in {"prepare", "compacting", "recompacting"} : Left(at, n) = 3
         /\ \A at \in {"head", "decide"} : Left(at, n) = 4
         /\ Left("reported", n) = 4 * n + 1 /\ Left("running", n) = 4 * n + 2
         /\ Left("started", n) = 4 * n + 3 /\ Left("call", n) = 4 * n + 4
         /\ Left("response", n) = 4 * MaxCalls + 5 /\ Left("settle", n) = 4 * MaxCalls + 6
         /\ Left("sent", n) = 4 * MaxCalls + 7
BY DEF Left, Resting

LEMMA LeftCounts ==
  ASSUME NEW n \in Nat, NEW at \in Resting \cup Working
  PROVE  Left(at, n) \in Nat
<1>1. MaxCalls \in Nat
  BY AgentConstants
<1> QED BY <1>1 DEF Left, Resting, Working

LEMMA BatchLen ==
  ASSUME ToolType
  PROVE  /\ Len(batch) \in Nat
         /\ batch # <<>> => Tail(batch) \in Seq(Calls) /\ Len(Tail(batch)) = Len(batch) - 1
                            /\ Len(batch) > 0
<1>1. batch \in Seq(Calls)
  BY DEF ToolType
<1> QED BY <1>1, LenProperties, EmptySeq, HeadTailProperties

LEMMA BatchesShort ==
  ASSUME NEW calls \in Batches
  PROVE  Len(calls) \in Nat /\ Len(calls) <= MaxCalls
<1>1. PICK n \in 0..MaxCalls : calls \in [1..n -> Calls]
  BY DEF Batches
<1>2. n \in Nat /\ n <= MaxCalls
  BY <1>1, AgentConstants
<1>3. calls \in Seq(Calls) /\ Len(calls) = n
  BY <1>1, <1>2
<1> QED BY <1>2, <1>3

(* The loop, and a request: what is left does not depend on the calls.     *)
LEMMA LoopDown ==
  ASSUME IInv, late, Loop
  PROVE  place' \in Resting \/ Down
<1>0. Len(batch) \in Nat /\ MaxCalls \in Nat
  BY BatchLen, AgentConstants DEF IInv, ToolOK
<1>1. CASE Iterate
  <2>1. place = "head" /\ place' = "prepare" /\ late' = late /\ stopped' = stopped /\ batch' = batch
    BY <1>1 DEF Iterate, budgetVars, toolVars
  <2> QED BY <1>0, <2>1, LeftIs DEF Down
<1>2. CASE IterationsExhausted \/ Checkpointed \/ Complete
  BY <1>2 DEF IterationsExhausted, Checkpointed, Complete, Ends, Resting
<1>3. ASSUME NEW calls \in Batches, Respond(calls) PROVE Down
  <2>1. /\ place = "response" /\ late' = late /\ stopped' = stopped /\ batch' = calls
        /\ place' = IF calls = <<>> THEN "completion" ELSE "call"
    BY <1>3 DEF Respond, Same, budgetVars
  <2>2. Len(calls) \in Nat /\ Len(calls) <= MaxCalls
    BY BatchesShort
  <2>3. Left("response", Len(batch)) = 4 * MaxCalls + 5
    BY <1>0, LeftIs
  <2>4. Left("completion", Len(calls)) = 1 /\ Left("call", Len(calls)) = 4 * Len(calls) + 4
    BY <2>2, LeftIs
  <2> QED BY <1>0, <2>1, <2>2, <2>3, <2>4 DEF Down
<1> QED BY <1>1, <1>2, <1>3 DEF Loop

LEMMA RequestDown ==
  ASSUME IInv, late, Request \/ Recover \/ Provider \/ SaveFails
  PROVE  place' \in Resting \/ Down
<1>0. Len(batch) \in Nat /\ MaxCalls \in Nat
  BY BatchLen, AgentConstants DEF IInv, ToolOK
<1>1. ASSUME place' \in Working, ~Down PROVE FALSE
  <2>1. CASE NewRequest
    <3>1. /\ place \in {"prepare", "prepared"} /\ place' = "request"
          /\ late' = late /\ stopped' = stopped /\ batch' = batch
      BY <2>1 DEF NewRequest, budgetVars, toolVars
    <3>2. Left("prepare", Len(batch)) = 3 /\ Left("prepared", Len(batch)) = 2
          /\ Left("request", Len(batch)) = 1
      BY <1>0, LeftIs
    <3> QED BY <1>1, <3>1, <3>2 DEF Down
  <2>2. CASE Compact \/ Submit
    BY <2>2 DEF Compact, Submit, Interrupted
  <2>3. CASE Summary
    BY <2>3 DEF Summary, Exhausted
  <2>4. CASE Compacted
    <3>1. /\ \/ place = "compacting" /\ place' = "prepared"
             \/ place = "recompacting" /\ place' = "backoff"
          /\ late' = late /\ stopped' = stopped /\ batch' = batch
      BY <2>4 DEF Compacted, toolVars
    <3>2. Left("compacting", Len(batch)) = 3 /\ Left("recompacting", Len(batch)) = 3
          /\ Left("prepared", Len(batch)) = 2 /\ Left("backoff", Len(batch)) = 2
      BY <1>0, LeftIs
    <3> QED BY <1>1, <3>1, <3>2 DEF Down
  <2>5. CASE CompactionFails \/ RequestRefused \/ Refreshed \/ GiveUp \/ SaveFails
    BY <1>1, <2>5 DEF CompactionFails, RequestRefused, Refreshed, GiveUp, SaveFails, Ends, Working
  <2>6. CASE Abandoned \/ Provider
    <3>1. PICK kind, phase, local, taken : Heard(kind, phase, local, taken)
      BY <2>6 DEF Abandoned, Provider, Answered, NotConnected, Unimplemented, Rejected, Overloaded,
                  Lost, BrokenOff
    <3>2. /\ place = "sent" /\ place' = "settle"
          /\ late' = late /\ stopped' = stopped /\ batch' = batch
      BY <3>1 DEF Heard, budgetVars, toolVars
    <3> QED BY <1>0, <1>1, <3>2, LeftIs DEF Down
  <2>7. CASE Settle
    <3>1. PICK outcome, spent : place = "settle" /\ Settled(outcome, spent)
      BY <2>7 DEF Settle
    <3>2. /\ place' \in {"response", "decide"} /\ late' = late /\ stopped' = stopped /\ batch' = batch
      BY <1>1, <3>1 DEF Settled, Ends, Working
    <3>3. Left("decide", Len(batch)) = 4 /\ Left("response", Len(batch)) = 4 * MaxCalls + 5
          /\ Left("settle", Len(batch)) = 4 * MaxCalls + 6
      BY <1>0, LeftIs
    <3> QED BY <1>0, <1>1, <3>1, <3>2, <3>3 DEF Down
  <2>8. CASE Retry \/ FallBack \/ Refresh \/ RecoverByCompaction
    <3>1. Action(failure) \in {"backoff", "refresh", "compact"}
      BY <2>8 DEF Retry, FallBack, Refresh, RecoverByCompaction
    <3> QED BY <3>1 DEF Action, MayRetry, Exhausted
  <2>9. CASE Backoff
    <3>1. /\ place = "backoff" /\ place' = "request"
          /\ late' = late /\ stopped' = stopped /\ batch' = batch
      BY <2>9 DEF Backoff, budgetVars, toolVars
    <3> QED BY <1>0, <1>1, <3>1, LeftIs DEF Down
  <2> QED BY <2>1, <2>2, <2>3, <2>4, <2>5, <2>6, <2>7, <2>8, <2>9 DEF Request, Recover
<1>2. place' \in Resting \cup Working
  BY NextIInv DEF AgentNext, IInv, LoopOK, LoopType
<1> QED BY <1>1, <1>2

(* A call that is over takes its four steps with it.                       *)
LEMMA ProceedDown ==
  ASSUME IInv, place \in {"call", "started", "reported"}, Proceed
  PROVE  Down
<1>1. batch # <<>> /\ ToolType
  BY DEF IInv, ToolOK, CurrentCall
<1>2. /\ Len(batch) \in Nat /\ Len(batch') = Len(batch) - 1 /\ Len(batch') \in Nat
      /\ late' = late /\ stopped' = stopped
  <2>1. batch' = Tail(batch) /\ late' = late /\ stopped' = stopped
    BY DEF Proceed, budgetVars
  <2>2. Len(batch) \in Nat /\ Len(batch) > 0 /\ Len(batch') = Len(batch) - 1
    BY <1>1, <2>1, BatchLen
  <2> QED BY <2>1, <2>2
<1>3. place' = "head" \/ (place' = "call")
  BY DEF Proceed
<1>4. Left("head", Len(batch')) = 4 /\ Left("call", Len(batch')) = 4 * Len(batch') + 4
  BY <1>2, LeftIs
<1>5. Left("call", Len(batch)) = 4 * Len(batch) + 4 /\ Left("started", Len(batch)) = 4 * Len(batch) + 3
      /\ Left("reported", Len(batch)) = 4 * Len(batch) + 1
  BY <1>2, LeftIs
<1>6. 4 * Len(batch') + 4 = 4 * Len(batch) /\ Len(batch) >= 1
  BY <1>2
<1>7. Left(place', Len(batch')) <= 4 * Len(batch)
  BY <1>2, <1>3, <1>4, <1>6
<1>8. 4 * Len(batch) < Left(place, Len(batch))
  BY <1>2, <1>5
<1> QED BY <1>2, <1>3, <1>4, <1>5, <1>6, <1>7, <1>8 DEF Down

LEMMA ToolsDown ==
  ASSUME IInv, late, CallTools \/ Tool
  PROVE  place' \in Resting \/ Down
<1>0. Len(batch) \in Nat
  BY BatchLen DEF IInv, ToolOK
<1>1. CASE Refuse \/ BadArguments \/ NotStarted \/ Report
  <2>1. place \in {"call", "started", "reported"}
    BY <1>1 DEF Refuse, BadArguments, NotStarted, Report
  <2>2. Proceed \/ Ends("blocked")
    BY <1>1 DEF Refuse, BadArguments, NotStarted, Report
  <2> QED BY <2>1, <2>2, ProceedDown DEF Ends, Resting
<1>2. CASE Announce
  <2>1. \/ /\ place = "call" /\ place' = "started"
           /\ late' = late /\ stopped' = stopped /\ batch' = batch
        \/ place' = "failed"
    BY <1>2 DEF Announce, Same, budgetVars, Ends
  <2>2. Left("call", Len(batch)) = 4 * Len(batch) + 4 /\ Left("started", Len(batch)) = 4 * Len(batch) + 3
    BY <1>0, LeftIs
  <2>3. Left("started", Len(batch)) < Left("call", Len(batch))
    BY <1>0, <2>2
  <2> QED BY <2>1, <2>3 DEF Down, Resting
<1>3. CASE Dispatch
  BY <1>3 DEF Dispatch, Interrupted
<1>4. CASE ToolTimesOut \/ Tool
  <2>1. /\ place = "running" /\ place' = "reported"
        /\ late' = late /\ stopped' = stopped /\ batch' = batch
    BY <1>4 DEF ToolTimesOut, Tool, ToolUnknown, ToolAnswers, Same, budgetVars
  <2> QED BY <1>0, <2>1, LeftIs DEF Down
<1>5. CASE ToolCancelled
  BY <1>5 DEF ToolCancelled, Ends, Resting
<1> QED BY <1>1, <1>2, <1>3, <1>4, <1>5 DEF CallTools

(* A batch is what is left of one response.                                *)
BatchShort == Len(batch) <= MaxCalls

LEMMA BatchMoves ==
  ASSUME [AgentNext]_agentVars
  PROVE  batch' \in {batch, <<>>, Tail(batch)} \cup Batches
<1>1. CASE UNCHANGED agentVars
  BY <1>1 DEF agentVars, toolVars
<1>2. CASE StartTurn \/ Crash \/ SaveFails \/ TimePasses \/ UserCancels
  BY <1>2 DEF StartTurn, Crash, SaveFails, TimePasses, UserCancels, toolVars
<1>3. CASE Loop
  BY <1>3 DEF Loop, Iterate, IterationsExhausted, Checkpointed, Complete, Respond, toolVars
<1>4. CASE Request
  <2>1. CASE NewRequest \/ Compact \/ Summary \/ Compacted \/ CompactionFails \/ RequestRefused \/ Submit
    BY <2>1 DEF NewRequest, Compact, Summary, Compacted, CompactionFails, RequestRefused, Submit, toolVars
  <2>2. CASE Abandoned
    BY <2>2 DEF Abandoned, Heard, toolVars
  <2>3. CASE Settle
    BY <2>3 DEF Settle, Settled
  <2> QED BY <1>4, <2>1, <2>2, <2>3 DEF Request
<1>5. CASE Recover
  BY <1>5 DEF Recover, Retry, Backoff, FallBack, Refresh, Refreshed, RecoverByCompaction, GiveUp,
              Recovering, toolVars
<1>6. CASE CallTools \/ Tool
  <2>1. CASE Refuse \/ BadArguments \/ NotStarted \/ Report
    BY <2>1 DEF Refuse, BadArguments, NotStarted, Report, Proceed
  <2>2. CASE Announce \/ Dispatch \/ ToolTimesOut \/ ToolCancelled \/ Tool
    BY <2>2 DEF Announce, Dispatch, ToolTimesOut, ToolCancelled, Tool, ToolUnknown, ToolAnswers
  <2> QED BY <1>6, <2>1, <2>2 DEF CallTools
<1>7. CASE Provider
  BY <1>7 DEF Provider, Answered, NotConnected, Unimplemented, Rejected, Overloaded, Lost, BrokenOff,
              Heard, toolVars
<1> QED BY <1>1, <1>2, <1>3, <1>4, <1>5, <1>6, <1>7 DEF AgentNext

LEMMA BatchAlwaysShort == AgentSpec => []BatchShort
<1>1. AgentInit => BatchShort
  BY AgentConstants DEF AgentInit, BatchShort
<1>2. ASSUME IInv, BatchShort, [AgentNext]_agentVars PROVE BatchShort'
  <2>1. Len(batch) \in Nat /\ MaxCalls \in Nat /\ Len(<<>>) = 0
        /\ (batch # <<>> => Len(Tail(batch)) = Len(batch) - 1)
    BY <1>2, BatchLen, AgentConstants DEF IInv, ToolOK
  <2>2. Len(Tail(batch)) <= MaxCalls
    <3>1. CASE batch = <<>>
      BY <2>1, <3>1
    <3>2. CASE batch # <<>>
      BY <1>2, <2>1, <3>2 DEF BatchShort
    <3> QED BY <3>1, <3>2
  <2>3. batch' \in {batch, <<>>, Tail(batch)} \cup Batches
    BY <1>2, BatchMoves
  <2>4. CASE batch' \in {batch, <<>>, Tail(batch)}
    <3>1. Len(batch') \in {Len(batch), 0, Len(Tail(batch))}
      BY <2>1, <2>4
    <3>2. Len(batch') <= MaxCalls
      BY <1>2, <2>1, <2>2, <3>1 DEF BatchShort
    <3> QED BY <3>2 DEF BatchShort
  <2>5. CASE batch' \in Batches
    <3>1. Len(batch') <= MaxCalls
      BY <2>5, BatchesShort
    <3> QED BY <3>1 DEF BatchShort
  <2> QED BY <2>3, <2>4, <2>5
<1> QED BY <1>1, <1>2, AlwaysIInv, PTL DEF AgentSpec

LEMMA FewStepsLeft ==
  ASSUME IInv, BatchShort
  PROVE  StepsLeft \in 0..(4 * MaxCalls + 8)
<1>1. Len(batch) \in Nat /\ MaxCalls \in Nat /\ Len(batch) <= MaxCalls
  BY BatchLen, AgentConstants DEF IInv, ToolOK, BatchShort
<1>2. place \in Resting \cup Working /\ stopped \in BOOLEAN
  BY DEF IInv, LoopOK, LoopType
<1>3. Left(place, Len(batch)) \in Nat /\ Left(place, Len(batch)) <= 4 * MaxCalls + 7
  BY <1>1, <1>2 DEF Left, Resting, Working
<1> QED BY <1>1, <1>3 DEF StepsLeft

(* Once the time of a prompt is over, every step, of whoever it is, ends   *)
(* the turn or leaves fewer steps, whatever provider, tools and user do    *)
(* (RecoveryBudget and the checkpoints of run(), core/agent.py): at most   *)
(* 4 * MaxCalls + 8 are left.                                              *)
THEOREM LateTurnsRunOut ==
  AgentSpec => [](StepsLeft \in 0..(4 * MaxCalls + 8)) /\ [][RunsOut]_agentVars
<1>1. ASSUME IInv, AgentNext, late, place \in Working
      PROVE  place' \in Resting \/ (late' /\ StepsLeft' < StepsLeft)
  <2>1. Len(batch) \in Nat /\ Len(batch') \in Nat /\ place' \in Resting \cup Working
        /\ stopped \in BOOLEAN
    <3>1. ToolType /\ ToolType' /\ LoopType /\ LoopType'
      BY <1>1, NextIInv DEF IInv, ToolOK, LoopOK
    <3> QED BY <3>1, LenProperties DEF ToolType, LoopType
  <2>2. Left(place, Len(batch)) \in Nat /\ Left(place', Len(batch')) \in Nat
    BY <1>1, <2>1, LeftCounts
  <2>3. ASSUME Down PROVE late' /\ StepsLeft' < StepsLeft
    BY <1>1, <2>1, <2>2, <2>3 DEF Down, StepsLeft
  <2>4. CASE StartTurn \/ TimePasses
    BY <1>1, <2>4 DEF StartTurn, TimePasses, Working, Resting
  <2>5. CASE Loop
    BY <1>1, <2>3, <2>5, LoopDown
  <2>6. CASE Request \/ Recover \/ Provider \/ SaveFails
    BY <1>1, <2>3, <2>6, RequestDown
  <2>7. CASE CallTools \/ Tool
    BY <1>1, <2>3, <2>7, ToolsDown
  <2>8. CASE UserCancels
    <3>1. ~stopped /\ stopped' /\ place' = place /\ batch' = batch /\ late' = late
      BY <2>8 DEF UserCancels, budgetVars, toolVars
    <3> QED BY <1>1, <2>2, <3>1 DEF StepsLeft
  <2>9. CASE Crash
    BY <2>9 DEF Crash, Ends, Resting
  <2> QED BY <1>1, <2>4, <2>5, <2>6, <2>7, <2>8, <2>9 DEF AgentNext
<1>2. IInv /\ [AgentNext]_agentVars => [RunsOut]_agentVars
  BY <1>1 DEF RunsOut
<1>3. IInv /\ BatchShort => StepsLeft \in 0..(4 * MaxCalls + 8)
  BY FewStepsLeft
<1> QED BY <1>2, <1>3, AlwaysIInv, BatchAlwaysShort, PTL DEF AgentSpec
=============================================================================
