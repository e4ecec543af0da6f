------------------------------ MODULE LiveControl ------------------------------
(***************************************************************************)
(* The live control of a coding run (CodingRunControl in                   *)
(* firik_agent/projects/coding_runtime.py): pause, resume, cancellation,   *)
(* the policy and the approvals.  Callers are the tool calls of the agent  *)
(* and of its specialists, on the asyncio loop; the screen acts from its   *)
(* own thread between any two of their steps.                              *)
(*                                                                         *)
(* The policy is the effective decision for the action all callers ask     *)
(* for: parent grants, permissions and fixed limits are folded into it.    *)
(* Left out: names, arguments and events, the grants' content, and the     *)
(* state that is shown.                                                    *)
(***************************************************************************)
EXTENDS Naturals

CONSTANTS
  Callers,
  MaxAsks    \* bound: approvals a caller asks for

ASSUME ControlConstants == MaxAsks \in Nat

VARIABLES
  policy,      \* effective decision: allow, ask or deny
  stopEvent, pauseEvent, voiceStop,   \* cancel_event, pause_event, the voice request's token
  pending,     \* pending_approvals
  decision,    \* _decisions, by request
  intent,      \* the journal row of a request
  caller,      \* where a caller is, and how many approvals it has asked for
  cancelling,  \* the screen is in the middle of cancel()
  firstAnswer  \* history: the first answer that was accepted for a request

controlVars == <<policy, stopEvent, pauseEvent, voiceStop, pending, decision, intent,
                 caller, cancelling, firstAnswer>>

(* Request identities are never used again.                                *)
Requests == Callers \X (1..MaxAsks)
Answers == {"none", "yes", "no"}
Waiting == {"entry", "poll", "take", "last"}
Places == Waiting \cup {"idle", "decide", "ask", "answered", "final",
                        "granted", "refused", "stopped", "broken"}

LiveControlTypeOK ==
  /\ policy \in {"allow", "ask", "deny"}
  /\ stopEvent \in BOOLEAN /\ pauseEvent \in BOOLEAN /\ voiceStop \in BOOLEAN
  /\ pending \subseteq Requests
  /\ decision \in [Requests -> Answers] /\ firstAnswer \in [Requests -> Answers]
  /\ intent \in [Requests -> {"none", "ready", "dispatching", "running", "completed"}]
  /\ caller \in [Callers -> [pc : Places, asks : 0..MaxAsks, answer : Answers]]
  /\ cancelling \in BOOLEAN

ControlInit ==
  /\ policy \in {"allow", "ask", "deny"}
  /\ stopEvent = FALSE /\ pauseEvent = FALSE /\ voiceStop = FALSE
  /\ pending = {}
  /\ decision = [r \in Requests |-> "none"] /\ firstAnswer = [r \in Requests |-> "none"]
  /\ intent = [r \in Requests |-> "none"]
  /\ caller = [c \in Callers |-> [pc |-> "idle", asks |-> 0, answer |-> "none"]]
  /\ cancelling = FALSE

Cancelled == stopEvent \/ voiceStop
RequestOf(c) == <<c, caller[c].asks>>
At(c, place) == caller[c].pc = place
Go(c, place) == caller' = [caller EXCEPT ![c].pc = place]

-----------------------------------------------------------------------------
(* authorize() and request_approval().  A checkpoint lets a caller pass,   *)
(* holds it while the run is paused, or ends it.                           *)

(* RaisesUnpaused (for mutation): a pause holds a cancelled caller, too.   *)
RaisesUnpaused == ~pauseEvent /\ Cancelled
Passes == ~pauseEvent /\ ~Cancelled
Raises == Cancelled

Authorize(c) ==
  /\ caller[c].pc \in {"idle", "granted", "refused"}
  /\ caller[c].asks < MaxAsks
  /\ caller' = [caller EXCEPT ![c].pc = "entry", ![c].answer = "none"]
  /\ UNCHANGED <<policy, stopEvent, pauseEvent, voiceStop, pending, decision, intent, cancelling, firstAnswer>>

Checkpoint(c) ==
  /\ Passes
  /\ \/ At(c, "entry") /\ Go(c, "decide")
     \/ At(c, "poll") /\ Go(c, "take")
     \/ At(c, "last") /\ Go(c, "final")
  /\ UNCHANGED <<policy, stopEvent, pauseEvent, voiceStop, pending, decision, intent, cancelling, firstAnswer>>

Decide(c) ==
  /\ At(c, "decide")
  /\ Go(c, CASE policy = "deny" -> "refused"
             [] policy = "ask" -> "ask"
             [] policy = "allow" -> "last")
  /\ UNCHANGED <<policy, stopEvent, pauseEvent, voiceStop, pending, decision, intent, cancelling, firstAnswer>>

(* The intent is saved, then the request is shown.  When it cannot be      *)
(* saved, the caller ends before anybody can answer.                       *)
Ask(c) ==
  /\ At(c, "ask")
  /\ caller' = [caller EXCEPT ![c].pc = "poll", ![c].asks = @ + 1]
  /\ LET r == <<c, caller[c].asks + 1>> IN
     /\ intent' = [intent EXCEPT ![r] = "ready"]
     /\ pending' = pending \cup {r}
  /\ UNCHANGED <<policy, stopEvent, pauseEvent, voiceStop, decision, cancelling,
                 firstAnswer>>

AskFails(c) ==
  /\ At(c, "ask")
  /\ caller' = [caller EXCEPT ![c].pc = "broken", ![c].asks = @ + 1]
  /\ UNCHANGED <<policy, stopEvent, pauseEvent, voiceStop, pending, decision, intent, cancelling, firstAnswer>>

Take(c) ==
  /\ At(c, "take")
  /\ IF decision[RequestOf(c)] = "none" THEN Go(c, "poll") /\ UNCHANGED decision
     ELSE /\ caller' = [caller EXCEPT ![c].pc = "answered", ![c].answer = decision[RequestOf(c)]]
          /\ decision' = [decision EXCEPT ![RequestOf(c)] = "none"]
  /\ UNCHANGED <<policy, stopEvent, pauseEvent, voiceStop, pending, intent, cancelling,
                 firstAnswer>>

(* WithdrawLater (for mutation): an answer that came late is kept.         *)
WithdrawLater(c) == pending' = pending \ {RequestOf(c)} /\ UNCHANGED decision
(* Whatever ends the request takes it and its answer back.                 *)
Withdraw(c) ==
  /\ pending' = pending \ {RequestOf(c)}
  /\ decision' = [decision EXCEPT ![RequestOf(c)] = "none"]

Record(c) ==
  /\ At(c, "answered")
  /\ intent' = [intent EXCEPT ![RequestOf(c)] = "completed"]
  /\ Go(c, IF caller[c].answer = "yes" THEN "last" ELSE "refused")
  /\ Withdraw(c)
  /\ UNCHANGED <<policy, stopEvent, pauseEvent, voiceStop, cancelling, firstAnswer>>

(* One of the three saves of the row's states fails.                       *)
RecordFails(c) ==
  /\ At(c, "answered")
  /\ \E reached \in {"ready", "dispatching", "running"} :
       intent' = [intent EXCEPT ![RequestOf(c)] = reached]
  /\ Go(c, "broken")
  /\ Withdraw(c)
  /\ UNCHANGED <<policy, stopEvent, pauseEvent, voiceStop, cancelling, firstAnswer>>

(* After an approval only a denial is looked for again.                    *)
Finish(c) ==
  /\ At(c, "final")
  /\ Go(c, IF policy = "deny" THEN "refused" ELSE "granted")
  /\ UNCHANGED <<policy, stopEvent, pauseEvent, voiceStop, pending, decision, intent, cancelling, firstAnswer>>

Stopped(c) ==
  /\ Raises
  /\ caller[c].pc \in {"entry", "poll", "last"}
  /\ Go(c, "stopped")
  /\ IF At(c, "poll") THEN Withdraw(c) ELSE UNCHANGED <<pending, decision>>
  /\ UNCHANGED <<policy, stopEvent, pauseEvent, voiceStop, intent, cancelling,
                 firstAnswer>>

-----------------------------------------------------------------------------
(* The screen.                                                             *)

SetPolicy(p) ==
  /\ ~cancelling /\ policy # p
  /\ policy' = p
  /\ UNCHANGED <<stopEvent, pauseEvent, voiceStop, pending, decision, intent, caller, cancelling, firstAnswer>>

(* AnswerAgain (for mutation): a later answer replaces an earlier one.     *)
AnswerAgain(r, answer) ==
  /\ ~cancelling /\ r \in pending
  /\ decision' = [decision EXCEPT ![r] = answer]
  /\ firstAnswer' = [firstAnswer EXCEPT ![r] = IF @ = "none" THEN answer ELSE @]
  /\ UNCHANGED <<policy, stopEvent, pauseEvent, voiceStop, pending, intent, caller, cancelling>>

DecideApproval(r, answer) ==
  /\ ~cancelling /\ r \in pending /\ decision[r] = "none"
  /\ decision' = [decision EXCEPT ![r] = answer]
  /\ firstAnswer' = [firstAnswer EXCEPT ![r] = IF @ = "none" THEN answer ELSE @]
  /\ UNCHANGED <<policy, stopEvent, pauseEvent, voiceStop, pending, intent, caller, cancelling>>

Pause ==
  /\ ~cancelling
  /\ pauseEvent' = TRUE
  /\ UNCHANGED <<policy, stopEvent, voiceStop, pending, decision, intent, caller, cancelling,
                 firstAnswer>>

Resume ==
  /\ ~cancelling
  /\ pauseEvent' = FALSE
  /\ UNCHANGED <<policy, stopEvent, voiceStop, pending, decision, intent, caller, cancelling,
                 firstAnswer>>

Cancel ==
  /\ ~cancelling
  /\ stopEvent' = TRUE /\ cancelling' = TRUE
  /\ UNCHANGED <<policy, pauseEvent, voiceStop, pending, decision, intent, caller,
                 firstAnswer>>

CancelUnpauses ==
  /\ cancelling
  /\ pauseEvent' = FALSE /\ cancelling' = FALSE
  /\ UNCHANGED <<policy, stopEvent, voiceStop, pending, decision, intent, caller,
                 firstAnswer>>

(* A spoken stop sets the token of the voice request, and nothing else.    *)
VoiceCancels ==
  /\ ~voiceStop
  /\ voiceStop' = TRUE
  /\ UNCHANGED <<policy, stopEvent, pauseEvent, pending, decision, intent, caller, cancelling, firstAnswer>>

-----------------------------------------------------------------------------
CallerStep(c) ==
  \/ Checkpoint(c) \/ Decide(c) \/ Ask(c) \/ AskFails(c) \/ Take(c)
  \/ Record(c) \/ RecordFails(c) \/ Finish(c) \/ Stopped(c)

ControlNext ==
  \/ \E c \in Callers : Authorize(c) \/ CallerStep(c)
  \/ \E p \in {"allow", "ask", "deny"} : SetPolicy(p)
  \/ \E r \in Requests, answer \in {"yes", "no"} : DecideApproval(r, answer)
  \/ Pause \/ Resume \/ Cancel \/ CancelUnpauses \/ VoiceCancels

(* The loop runs every task that is ready; nobody has to press a button.   *)
ControlFairness == \A c \in Callers : WF_controlVars(CallerStep(c))
ControlSpec == ControlInit /\ [][ControlNext]_controlVars /\ ControlFairness

-----------------------------------------------------------------------------
(* The answer a caller acts on is the first one that was accepted for its  *)
(* request, however late or often the screen answers: decide_approval      *)
(* accepts no second answer before the first is taken, and none that comes *)
(* afterwards has an effect.  No is never overruled, and the journal says  *)
(* completed of no request that nobody answered.                           *)
FirstAnswerCounts ==
  /\ \A c \in Callers :
       /\ caller[c].answer # "none" => caller[c].answer = firstAnswer[RequestOf(c)]
       /\ caller[c].answer = "no" => caller[c].pc \in {"answered", "refused", "broken"}
  /\ \A r \in Requests : intent[r] = "completed" => firstAnswer[r] # "none"

(* What is pending or decided belongs to a caller that still waits for it: *)
(* a request withdrawn by an answer, a cancellation or a failed save is no *)
(* longer shown, and no answer to it is left for anybody.                  *)
WithdrawnIsForgotten ==
  \A r \in Requests :
    r \in pending \/ decision[r] # "none" =>
      RequestOf(r[1]) = r /\ caller[r[1]].pc \in {"poll", "take", "answered"}

(* A cancellation ends the waiting of every caller, also when the run is   *)
(* paused afterwards, and when it comes from a voice request, which does   *)
(* not lift a pause.                                                       *)
StopEndsWaiting ==
  \A c \in Callers : (Cancelled /\ caller[c].pc \in Waiting) ~> caller[c].pc \notin Waiting
=============================================================================
