------------------------------- MODULE AgentRun -------------------------------
(***************************************************************************)
(* The agent's loop over one conversation (run, run_stream,                *)
(* _request_with_recovery, _execute_attempt and _dispatch_attempt in       *)
(* firik_agent/core/agent.py) with its recovery policy (core/recovery.py)  *)
(* and the classes of failures (core/failures.py): requests to a model,    *)
(* which may be retried, and tool calls, which must not be repeated when   *)
(* nobody knows what they did.                                             *)
(*                                                                         *)
(* A coding run is durable: it has a control and a journal, and its        *)
(* messages are saved.  An ordinary chat has neither.  A tool's arguments  *)
(* are part of its name here: an operation is a fingerprint.  Left out:    *)
(* texts, costs (tokens and money are one flag: the cap is reached, or     *)
(* usage is unknown), a policy that got stricter before a retry (one of    *)
(* the ways a request is refused), a child's reuse of its parent's         *)
(* results, plugins, and what a tool does.                                 *)
(***************************************************************************)
EXTENDS Naturals, Sequences, FiniteSets

CONSTANTS
  Operations,       \* operations the model may call
  Remote,           \* those of MCP servers
  CallIds,          \* identities the model gives its calls
  RequestRetries, RunRetries, MaxRequests, RepeatedFailures, MaxIterations,
  MaxCalls          \* bound: calls in one response

ASSUME AgentConstants ==
  /\ Remote \subseteq Operations
  /\ RequestRetries \in Nat /\ RunRetries \in Nat /\ MaxRequests \in Nat \ {0}
  /\ RepeatedFailures \in Nat \ {0} /\ MaxIterations \in Nat /\ MaxCalls \in Nat

VARIABLES
  durable,      \* a coding run
  place,        \* where the loop is
  iteration, synthesis, failing,     \* run(): iterations, failed calls of MCP operations
  attempt, streaming, failure,       \* _request_with_recovery(): of one logical request
  requests, retries, overBudget, late,    \* the RecoveryBudget
  stopped,      \* the user cancels
  batch,        \* calls of the response that have no result yet
  earlier,      \* operations whose outcome an earlier prompt left unknown
  attempts,     \* tool attempts of this prompt, in the messages
  saved,        \* those on disk
  unresolved,   \* unresolved_operations is not empty
  accepted,     \* history: how often the provider took the logical request
  returned,     \* history: how often it took it, and then reported that it rejected it
  open          \* history: dispatches of an operation whose outcome nobody knows

requestVars == <<attempt, streaming, failure, accepted, returned>>
budgetVars == <<requests, retries, overBudget, late>>
loopVars == <<iteration, synthesis, failing>>
toolVars == <<batch, earlier, attempts, saved, open, unresolved>>
agentVars == <<durable, place, stopped, requestVars, budgetVars, loopVars, toolVars>>

Calls == [op : Operations, id : CallIds]
Batches == {b \in UNION {[1..n -> Calls] : n \in 0..MaxCalls} :
              \A i, j \in DOMAIN b : b[i].id = b[j].id => i = j}
Attempt == [op : Operations, id : CallIds,
            status : {"dispatched", "unknown", "blocked", "failed", "completed"}]
Uncertain == {"dispatched", "unknown", "blocked"}

Denials == {"permission_denied", "policy_refusal"}
Rejections == Denials \cup {"rate_limited", "authentication_failed", "context_overflow",
                            "unsupported_capability"}
Kinds == Rejections \cup {"transport_error", "provider_overloaded", "invalid_request",
                          "stream_interrupted", "budget_exceeded", "cancelled"}
Phases == {"not_submitted", "no_output", "partial", "complete"}
Fine == [kind |-> "none", phase |-> "complete", local |-> FALSE]
Failures == [kind : Kinds, phase : Phases, local : BOOLEAN]

Resting == {"idle", "cancelled", "failed", "blocked", "done"}
Working == {"head", "prepare", "prepared", "compacting", "recompacting", "request", "sent",
            "settle", "decide", "refresh", "backoff", "response", "call", "started", "running",
            "reported", "completion"}

AgentTypeOK ==
  /\ durable \in BOOLEAN /\ stopped \in BOOLEAN
  /\ place \in Resting \cup Working
  /\ iteration \in Nat /\ synthesis \in BOOLEAN
  /\ failing \in [Operations -> Nat]
  /\ attempt \in 0..RequestRetries /\ streaming \in BOOLEAN
  /\ failure \in {Fine} \cup Failures
  /\ requests \in 0..MaxRequests /\ retries \in 0..RunRetries
  /\ overBudget \in BOOLEAN /\ late \in BOOLEAN
  /\ batch \in Seq(Calls)
  /\ earlier \subseteq Operations
  /\ attempts \subseteq Attempt /\ saved \subseteq Attempt
  /\ unresolved \in BOOLEAN
  /\ accepted \in Nat /\ returned \in Nat /\ open \in [Operations -> Nat]

AgentInit ==
  /\ durable \in BOOLEAN /\ stopped = FALSE
  /\ place = "idle"
  /\ iteration = 0 /\ synthesis = FALSE /\ failing = [o \in Operations |-> 0]
  /\ attempt = 0 /\ streaming = TRUE /\ failure = Fine
  /\ requests = 0 /\ retries = 0 /\ overBudget = FALSE /\ late = FALSE
  /\ batch = <<>> /\ earlier = {} /\ attempts = {} /\ saved = {}
  /\ unresolved = FALSE
  /\ accepted = 0 /\ returned = 0 /\ open = [o \in Operations |-> 0]

Exhausted == requests >= MaxRequests \/ late \/ overBudget

(* The turn ends, and with it what run() kept for it; or it goes on.       *)
Ends(how) ==
  /\ place' = how
  /\ iteration' = 0 /\ synthesis' = FALSE /\ failing' = [o \in Operations |-> 0]
  /\ attempt' = 0 /\ streaming' = TRUE /\ failure' = Fine /\ accepted' = 0 /\ returned' = 0
  /\ requests' = 0 /\ retries' = 0 /\ overBudget' = FALSE /\ late' = FALSE
  /\ stopped' = FALSE
  /\ UNCHANGED durable
Same == UNCHANGED <<durable, stopped, requestVars, budgetVars, loopVars>>

-----------------------------------------------------------------------------
(* The loop.  A checkpoint ends the turn when the user cancelled; that of  *)
(* run(), and of a request, also when the time is over.                    *)

Interrupted == stopped \/ late

(* A prompt closes what an earlier turn left open: a call that may have    *)
(* run has an unknown outcome, and so has one nobody heard of, which a     *)
(* chat only finds when it is loaded again (repair_tool_history).          *)
StartTurn ==
  /\ place \in Resting
  /\ \E repaired \in {durable, TRUE} :
       earlier' = earlier \cup {a.op : a \in {b \in attempts : b.status \in Uncertain}}
                    \cup (IF repaired THEN {batch[i].op : i \in DOMAIN batch} ELSE {})
  /\ attempts' = {} /\ saved' = {} /\ batch' = <<>>
  /\ unresolved' = (durable /\ earlier' # {})
  /\ place' = "head"
  /\ UNCHANGED open /\ Same

AnyFailing == \E o \in Operations : failing[o] > 0
Synthesis == \E o \in Operations :
  failing[o] > 0 /\ (failing[o] >= RepeatedFailures \/ iteration >= MaxIterations)
GoesOn == ~synthesis /\ (iteration < MaxIterations \/ AnyFailing)

Iterate ==
  /\ place = "head" /\ ~stopped /\ GoesOn
  /\ iteration' = iteration + 1 /\ synthesis' = Synthesis
  /\ place' = "prepare"
  /\ UNCHANGED <<durable, stopped, requestVars, budgetVars, failing, toolVars>>

IterationsExhausted ==
  /\ place = "head" /\ ~GoesOn
  /\ Ends("blocked") /\ UNCHANGED toolVars

(* A checkpoint of the loop or of a retry.  A call whose attempt was       *)
(* announced stays as it is.                                               *)
Checkpointed ==
  /\ Interrupted
  /\ \/ place = "head" /\ GoesOn
     \/ place \in {"prepare", "compacting", "recompacting", "request", "backoff", "refresh",
                   "call", "started"}
  /\ Ends(IF stopped THEN "cancelled" ELSE "failed") /\ UNCHANGED toolVars

-----------------------------------------------------------------------------
(* One logical request.                                                    *)

NewRequest ==
  /\ place \in {"prepare", "prepared"}
  /\ attempt' = 0 /\ streaming' = TRUE /\ failure' = Fine /\ accepted' = 0 /\ returned' = 0
  /\ place' = "request"
  /\ UNCHANGED <<durable, stopped, budgetVars, loopVars, toolVars>>

(* The context is compacted before a request, or as a recovery: each       *)
(* summary is a request of its own, and any failure of it ends the turn.   *)
Compact ==
  /\ place = "prepare" /\ ~Interrupted
  /\ place' = "compacting"
  /\ UNCHANGED toolVars /\ Same

Summary ==
  /\ place \in {"compacting", "recompacting"} /\ ~Exhausted
  /\ requests' = requests + 1
  /\ overBudget' \in {overBudget, TRUE}
  /\ UNCHANGED <<durable, place, stopped, requestVars, retries, late, loopVars, toolVars>>

Compacted ==
  /\ place \in {"compacting", "recompacting"}
  /\ IF place = "compacting" THEN place' = "prepared" /\ UNCHANGED retries
                             ELSE place' = "backoff" /\ retries' = retries + 1
  /\ UNCHANGED <<durable, stopped, requestVars, requests, overBudget, late, loopVars, toolVars>>

(* The summary does not make the context fit.                              *)
CompactionFails ==
  /\ place \in {"compacting", "recompacting"}
  /\ Ends("failed") /\ UNCHANGED toolVars

(* The reservation fails, the budget is exhausted, or a retry finds a      *)
(* policy that got stricter.                                               *)
RequestRefused ==
  /\ place = "request"
  /\ Ends("failed") /\ UNCHANGED toolVars

Submit ==
  /\ place = "request" /\ ~Interrupted /\ ~Exhausted
  /\ requests' = requests + 1
  /\ place' = "sent"
  /\ UNCHANGED <<durable, stopped, requestVars, retries, overBudget, late, loopVars, toolVars>>

(* What becomes of a request in flight.  Only the provider knows whether   *)
(* it took a request that got lost, or one it was too busy to answer.  A   *)
(* rejection is a status, or an error inside an answer with status 200,    *)
(* after frames without output (providers/_chat.py:93, 147): then it took  *)
(* the request, and gives it back.  In a chat being too busy is rejecting. *)
GivesBack(kind, phase) ==
  phase = "no_output" /\ (kind \in Rejections \/ (kind = "provider_overloaded" /\ ~durable))

Heard(kind, phase, local, taken) ==
  /\ place = "sent"
  /\ phase = "partial" => streaming
  /\ failure' = IF kind = "none" THEN Fine ELSE [kind |-> kind, phase |-> phase, local |-> local]
  /\ accepted' = accepted + (IF taken THEN 1 ELSE 0)
  /\ returned' = returned + (IF taken /\ GivesBack(kind, phase) THEN 1 ELSE 0)
  /\ place' = "settle"
  /\ UNCHANGED <<durable, stopped, attempt, streaming, budgetVars, loopVars, toolVars>>

Answered == Heard("none", "complete", FALSE, TRUE)
NotConnected == Heard("transport_error", "not_submitted", FALSE, FALSE)
Unimplemented == Heard("unsupported_capability", "not_submitted", TRUE, FALSE)
Rejected == \E kind \in Rejections \cup {"invalid_request", "budget_exceeded"}, taken \in BOOLEAN :
              Heard(kind, "no_output", FALSE, taken)
Overloaded == \E taken \in BOOLEAN : Heard("provider_overloaded", "no_output", FALSE, taken)
Lost == \E kind \in {"transport_error", "stream_interrupted"}, taken \in BOOLEAN :
          Heard(kind, "no_output", FALSE, taken)
BrokenOff == \E kind \in {"stream_interrupted", "rate_limited", "policy_refusal"} :
               Heard(kind, "partial", FALSE, TRUE)
(* NoDeadline (for mutation): only the provider or the user ends a request. *)
NoDeadline ==
  /\ stopped
  /\ \E phase \in {"no_output", "partial"}, taken \in BOOLEAN :
       /\ phase = "partial" => taken
       /\ Heard("cancelled", phase, FALSE, taken)
Abandoned ==
  /\ Interrupted
  /\ \E phase \in {"no_output", "partial"}, taken \in BOOLEAN :
       /\ phase = "partial" => taken
       /\ Heard(IF stopped THEN "cancelled" ELSE "budget_exceeded", phase, FALSE, taken)

(* Usage is counted, the journal gets the outcome.  A durable run repeats  *)
(* only what certainly was not taken.                                      *)
OverBudget == [kind |-> "budget_exceeded", phase |-> "complete", local |-> FALSE]
Certain(f) == f.phase = "not_submitted" \/ f.kind \in Rejections

Settled(outcome, spent) ==
  LET doubt == durable /\ outcome # Fine /\ ~Certain(outcome) IN
  /\ unresolved' = (unresolved \/ doubt)
  /\ UNCHANGED <<batch, earlier, attempts, saved, open>>
  /\ IF doubt THEN Ends(IF outcome.phase = "partial" THEN "blocked" ELSE "failed")
     ELSE /\ failure' = outcome /\ overBudget' = spent
          /\ IF outcome = Fine THEN place' = "response" /\ attempt' = 0 /\ accepted' = 0
                                    /\ returned' = 0 /\ streaming' = TRUE
                               ELSE place' = "decide" /\ UNCHANGED <<attempt, accepted, returned, streaming>>
          /\ UNCHANGED <<durable, stopped, requests, retries, late, loopVars>>

Settle ==
  /\ place = "settle"
  /\ \E spent \in {overBudget, TRUE} :
       \/ Settled(failure, spent)
       \/ failure = Fine /\ spent /\ Settled(OverBudget, spent)

(* The row of a request or of a tool cannot be saved.                      *)
SaveFails ==
  /\ durable
  /\ place \in {"request", "sent", "settle", "running", "reported", "completion"}
  /\ Ends("failed") /\ UNCHANGED toolVars

-----------------------------------------------------------------------------
(* decide() and what the loop makes of it.                                 *)

MayRetry == ~Exhausted /\ attempt < RequestRetries /\ retries < RunRetries
Stops(f) == f.kind \in Denials \cup {"cancelled", "authentication_failed"}

(* SafeWhenLost (for mutation): a lost request counts as not submitted.    *)
SafeWhenLost(f) ==
  f.kind \in {"transport_error", "rate_limited", "provider_overloaded", "stream_interrupted"}
Safe(f) ==
  /\ f.phase = "not_submitted" \/ f.kind \in {"rate_limited", "provider_overloaded"}
  /\ f.kind \in {"transport_error", "rate_limited", "provider_overloaded", "stream_interrupted"}

Action(f) ==
  IF Stops(f) THEN "stop"
  ELSE IF f.phase = "partial" THEN "reconcile"
  ELSE IF f.kind = "budget_exceeded" \/ ~MayRetry THEN "fail"
  ELSE IF f.kind = "unsupported_capability" THEN "refresh"
  ELSE IF f.kind = "context_overflow" THEN "compact"
  ELSE IF Safe(f) THEN "backoff" ELSE "fail"

Recovering ==
  failure' = Fine /\ UNCHANGED <<durable, stopped, attempt, accepted, returned, loopVars, toolVars>>

Retry ==
  /\ place = "decide" /\ Action(failure) = "backoff"
  /\ retries' = retries + 1
  /\ place' = "backoff"
  /\ UNCHANGED <<streaming, requests, overBudget, late>> /\ Recovering

Backoff ==
  /\ place = "backoff" /\ ~stopped
  /\ attempt' = attempt + 1
  /\ place' = "request"
  /\ UNCHANGED <<durable, stopped, streaming, failure, accepted, returned, budgetVars, loopVars,
                 toolVars>>

(* The provider has no streaming: its plain interface is used.             *)
FallBack ==
  /\ place = "decide" /\ Action(failure) = "refresh" /\ failure.local /\ streaming
  /\ retries' = retries + 1 /\ streaming' = FALSE
  /\ place' = "backoff"
  /\ UNCHANGED <<requests, overBudget, late>> /\ Recovering

Refresh ==
  /\ place = "decide" /\ Action(failure) = "refresh"
  /\ place' = "refresh"
  /\ UNCHANGED <<streaming, budgetVars>> /\ Recovering

Refreshed ==
  /\ place = "refresh"
  /\ Ends("failed") /\ UNCHANGED toolVars

RecoverByCompaction ==
  /\ place = "decide" /\ Action(failure) = "compact"
  /\ place' = "recompacting"
  /\ UNCHANGED <<streaming, budgetVars>> /\ Recovering

(* Nothing safe is left; a delay may be too long for the time that is left. *)
GiveUp ==
  /\ place = "decide"
  /\ Ends(IF failure.kind = "cancelled" THEN "cancelled"
          ELSE IF failure.phase = "partial" THEN "blocked" ELSE "failed")
  /\ UNCHANGED toolVars

-----------------------------------------------------------------------------
(* The response and its tool calls.                                        *)

Respond(calls) ==
  /\ place = "response"
  /\ synthesis => calls = <<>>
  /\ batch' = calls
  /\ place' = IF calls = <<>> THEN "completion" ELSE "call"
  /\ UNCHANGED <<earlier, attempts, saved, open, unresolved>> /\ Same

(* A coding run with an unresolved operation is never complete.            *)
Complete ==
  /\ place = "completion"
  /\ \/ durable /\ Ends("blocked")
     \/ ~unresolved /\ Ends("done")
  /\ UNCHANGED toolVars

Before(op) == {a \in attempts : a.op = op}
(* ThisTurnOnly (for mutation): what earlier prompts left is not looked at. *)
ThisTurnOnly(op) == \E a \in Before(op) : a.status \in Uncertain
Doubtful(op) == op \in earlier \/ \E a \in Before(op) : a.status \in Uncertain
Repeated(c) == \E a \in Before(c.op) : a.id = c.id
TooOften(op) == Cardinality({a \in Before(op) : a.status = "failed"}) >= RepeatedFailures
Refused(c) == Doubtful(c.op) \/ Repeated(c) \/ TooOften(c.op)

Tried(c, status) == [op |-> c.op, id |-> c.id, status |-> status]
Failed(op) == failing' = IF op \in Remote THEN [failing EXCEPT ![op] = @ + 1] ELSE failing
Proceed ==
  /\ batch' = Tail(batch)
  /\ place' = IF batch' = <<>> THEN "head" ELSE "call"
  /\ UNCHANGED <<durable, stopped, requestVars, budgetVars, iteration, synthesis>>

(* A call that may already have run, or failed too often, is not made: the *)
(* turn ends, but for an MCP operation, of which the model is told.        *)
Refuse ==
  LET c == Head(batch) IN
  /\ place = "call" /\ ~stopped /\ Refused(c)
  /\ attempts' = attempts \cup {Tried(c, "blocked")}
  /\ saved' = attempts'
  /\ unresolved' = (unresolved \/ (durable /\ Doubtful(c.op)))
  /\ IF c.op \in Remote THEN Proceed /\ Failed(c.op) ELSE batch' = <<>> /\ Ends("blocked")
  /\ UNCHANGED <<earlier, open>>

BadArguments ==
  LET c == Head(batch) IN
  /\ place = "call" /\ ~stopped /\ ~Refused(c)
  /\ attempts' = attempts \cup {Tried(c, "failed")}
  /\ saved' = attempts'
  /\ Proceed /\ Failed(c.op)
  /\ UNCHANGED <<earlier, open, unresolved>>

(* The attempt is announced, and saved with the announcement, before the   *)
(* tool starts.                                                            *)
Announce ==
  LET c == Head(batch) IN
  /\ place = "call" /\ ~stopped /\ ~Refused(c)
  /\ attempts' = attempts \cup {Tried(c, "dispatched")}
  /\ \/ saved' = attempts' /\ place' = "started" /\ Same
     \/ durable /\ UNCHANGED saved /\ Ends("failed")
  /\ UNCHANGED <<batch, earlier, open, unresolved>>

Outcome(status) ==
  attempts' = (attempts \ {Tried(Head(batch), "dispatched")}) \cup {Tried(Head(batch), status)}

(* The cap or the time is passed: a result, of a tool that was not started. *)
NotStarted ==
  /\ place = "started" /\ ~stopped /\ (overBudget \/ late)
  /\ Outcome("failed") /\ saved' = attempts'
  /\ IF Head(batch).op \in Remote THEN batch' = <<>> /\ Ends("blocked")
                                  ELSE Proceed /\ UNCHANGED failing
  /\ UNCHANGED <<earlier, open, unresolved>>

Dispatch ==
  /\ place = "started" /\ ~Interrupted
  /\ open' = [open EXCEPT ![Head(batch).op] = @ + 1]
  /\ place' = "running"
  /\ UNCHANGED <<batch, earlier, attempts, saved, unresolved>> /\ Same

(* The tool answers: what it did is known now.                             *)
ToolAnswers(status) ==
  /\ place = "running"
  /\ Outcome(status)
  /\ open' = [open EXCEPT ![Head(batch).op] = @ - 1]
  /\ place' = "reported"
  /\ UNCHANGED <<batch, earlier, saved, unresolved>> /\ Same

(* It raises, says itself that it does not know, or the time is over.      *)
ToolUnknown ==
  /\ place = "running"
  /\ Outcome("unknown")
  /\ place' = "reported"
  /\ unresolved' = (unresolved \/ durable)
  /\ UNCHANGED <<batch, earlier, saved, open>> /\ Same

ToolTimesOut == late /\ ToolUnknown

ToolCancelled ==
  /\ place = "running" /\ stopped
  /\ Outcome("unknown") /\ saved' = attempts'
  /\ Ends("cancelled")
  /\ UNCHANGED <<batch, earlier, open, unresolved>>

(* The result goes into the messages.  A denied, cancelled or over-budget  *)
(* MCP call ends the turn, like an unknown outcome of any other tool.      *)
Report ==
  LET c == Head(batch)
      came(status) == Tried(c, status) \in attempts IN
  /\ place = "reported"
  /\ saved' = attempts
  /\ \/ /\ came("completed") \/ (c.op \notin Remote /\ came("failed"))
        /\ Proceed /\ UNCHANGED failing
     \/ /\ c.op \in Remote /\ ~came("completed")
        /\ Proceed /\ Failed(c.op)
     \/ /\ (c.op \notin Remote /\ came("unknown")) \/ (c.op \in Remote /\ ~came("completed"))
        /\ batch' = <<>> /\ Ends("blocked")
  /\ UNCHANGED <<earlier, attempts, open, unresolved>>

-----------------------------------------------------------------------------
(* Time, the user, and the death of the process.                           *)

TimePasses ==
  /\ place \in Working /\ ~late
  /\ late' = TRUE
  /\ UNCHANGED <<durable, place, stopped, requestVars, requests, retries, overBudget, loopVars,
                 toolVars>>

UserCancels ==
  /\ place \in Working /\ ~stopped
  /\ stopped' = TRUE
  /\ UNCHANGED <<durable, place, requestVars, budgetVars, loopVars, toolVars>>

(* A conversation of a coding run is restored from what was saved; the     *)
(* calls of its last response may be there or not.                         *)
Crash ==
  /\ durable /\ place \in Working
  /\ attempts' = saved
  /\ batch' \in {<<>>, batch}
  /\ Ends("failed")
  /\ UNCHANGED <<earlier, saved, open, unresolved>>

-----------------------------------------------------------------------------
Provider == Answered \/ NotConnected \/ Unimplemented \/ Rejected \/ Overloaded \/ Lost \/ BrokenOff
Tool == ToolUnknown \/ \E status \in {"completed", "failed"} : ToolAnswers(status)
Request == NewRequest \/ Compact \/ Summary \/ Compacted \/ CompactionFails \/ RequestRefused
           \/ Submit \/ Abandoned \/ Settle
Recover == Retry \/ Backoff \/ FallBack \/ Refresh \/ Refreshed \/ RecoverByCompaction \/ GiveUp
CallTools ==
  \/ Refuse \/ BadArguments \/ Announce \/ NotStarted \/ Dispatch
  \/ ToolTimesOut \/ ToolCancelled \/ Report
Loop ==
  \/ Iterate \/ IterationsExhausted \/ Checkpointed \/ Complete
  \/ \E calls \in Batches : Respond(calls)

AgentNext ==
  \/ StartTurn \/ Loop \/ Request \/ Recover \/ CallTools \/ Provider \/ Tool
  \/ SaveFails \/ TimePasses \/ UserCancels \/ Crash

(* The loop goes on, and time passes; neither provider nor tool has to     *)
(* answer, and nobody has to cancel.                                       *)
AgentFairness ==
  /\ WF_agentVars(Loop \/ Request \/ Recover \/ CallTools)
  /\ WF_agentVars(TimePasses)
AgentSpec == AgentInit /\ [][AgentNext]_agentVars /\ AgentFairness

-----------------------------------------------------------------------------
(* However often a logical request is retried, all that the provider took  *)
(* of it but one are those it said itself that it rejected, before any     *)
(* output: no doubt, loss or partial answer is followed by another sending *)
(* (_request_with_recovery: "A live request with ambiguous acceptance is   *)
(* also not silently billed a second time").  What was given back may have *)
(* been billed; a durable run gives no second try to a provider that was   *)
(* too busy.                                                               *)
AcceptedOnce == accepted <= returned + 1

(* No operation is dispatched while what an earlier dispatch of it did is  *)
(* unknown, in this prompt, an earlier one, or before the process died     *)
(* (_execute_attempt: "Never replay uncertain mutations").                 *)
UnknownNotRepeated == \A o \in Operations : open[o] <= 1

(* Every prompt ends, also when the provider or the tool never answers,    *)
(* and however the failures of MCP operations stretch the loop.            *)
TurnEnds == place \in Working ~> place \in Resting
=============================================================================
