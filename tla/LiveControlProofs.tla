---------------------------- MODULE LiveControlProofs ----------------------------
(***************************************************************************)
(* Proofs about LiveControl, for any callers and any number of approvals,  *)
(* and about VoiceSessions, for any tabs, sessions, threads and turns.     *)
(***************************************************************************)
EXTENDS LiveControl, VoiceSessions, TLAPS

-----------------------------------------------------------------------------
(* The inductive invariant: the two properties, and what they rest on.     *)

CallerRecord == [pc : Places, asks : 0..MaxAsks, answer : Answers]
Acting == {"answered", "last", "final", "granted", "refused", "stopped", "broken"}

(* A caller asks for no more than it may; only one that was answered acts  *)
(* on an answer; what is decided for one that waits is the first answer.   *)
CallerOK(c) ==
  /\ caller[c].pc \in {"entry", "decide", "ask"} => caller[c].asks < MaxAsks
  /\ caller[c].pc \in {"poll", "take", "answered"} => caller[c].asks # 0
  /\ caller[c].answer # "none" => caller[c].asks # 0 /\ caller[c].pc \in Acting
  /\ caller[c].pc = "answered" => caller[c].answer # "none"
  /\ caller[c].pc \in {"poll", "take"} => decision[RequestOf(c)] = firstAnswer[RequestOf(c)]

(* Nobody answered a request that was not made.                            *)
Unasked == \A r \in Requests : r[2] > caller[r[1]].asks => firstAnswer[r] = "none"

IInv ==
  /\ LiveControlTypeOK
  /\ \A c \in Callers : CallerOK(c)
  /\ Unasked
  /\ FirstAnswerCounts
  /\ WithdrawnIsForgotten

Rows == <<pending, decision, intent, firstAnswer>>

-----------------------------------------------------------------------------
LEMMA InitIInv == ControlInit => IInv
<1> SUFFICES ASSUME ControlInit PROVE IInv
  OBVIOUS
<1> USE ControlConstants DEF ControlConstants
<1>1. \A c \in Callers : caller[c] = [pc |-> "idle", asks |-> 0, answer |-> "none"]
  BY DEF ControlInit
<1>2. LiveControlTypeOK
  <2>1. [pc |-> "idle", asks |-> 0, answer |-> "none"] \in CallerRecord
    BY DEF CallerRecord, Places, Answers
  <2> QED
    BY <2>1 DEF ControlInit, LiveControlTypeOK, CallerRecord, Answers
<1>3. ASSUME NEW c \in Callers PROVE CallerOK(c)
  <2>1. caller[c].pc = "idle" /\ caller[c].answer = "none"
    BY <1>1
  <2> QED
    BY <2>1 DEF CallerOK
<1>4. Unasked /\ FirstAnswerCounts /\ WithdrawnIsForgotten
  BY <1>1 DEF ControlInit, Unasked, FirstAnswerCounts, WithdrawnIsForgotten
<1> QED
  BY <1>2, <1>3, <1>4 DEF IInv

(* The steps of the screen that touch neither a request nor a caller.      *)
LEMMA ScreenStep ==
  ASSUME IInv, UNCHANGED <<caller, Rows>>,
         policy' \in {"allow", "ask", "deny"}, stopEvent' \in BOOLEAN, pauseEvent' \in BOOLEAN,
         voiceStop' \in BOOLEAN, cancelling' \in BOOLEAN
  PROVE  IInv'
  BY DEF IInv, Rows, LiveControlTypeOK, CallerOK, Unasked, FirstAnswerCounts,
         WithdrawnIsForgotten, RequestOf

(* A caller that moves without touching a request; what is allowed of such a move.                                         *)
Moved(c, rec) ==
  /\ rec \in CallerRecord
  /\ rec.asks >= caller[c].asks
  /\ rec.asks # caller[c].asks => rec.answer = "none"
  /\ rec.answer # "none" => rec.answer = caller[c].answer /\ rec.pc \in Acting
  /\ rec.answer = "no" => rec.pc \in {"answered", "refused", "broken"}
  /\ rec.pc \in {"entry", "decide", "ask"} => rec.asks < MaxAsks
  /\ rec.pc # "answered"
  /\ rec.pc \in {"poll", "take"} <=> caller[c].pc \in {"poll", "take"}
  /\ rec.pc \in {"poll", "take"} => rec.asks = caller[c].asks
  /\ caller[c].pc # "answered"

LEMMA MoveStep ==
  ASSUME IInv, NEW c \in Callers, NEW rec, Moved(c, rec),
         caller' = [caller EXCEPT ![c] = rec],
         UNCHANGED <<policy, stopEvent, pauseEvent, voiceStop, cancelling, Rows>>
  PROVE  IInv'
<1> USE ControlConstants DEF ControlConstants
<1>1. LiveControlTypeOK /\ rec \in CallerRecord
  BY DEF IInv, Moved
<1>2. caller'[c] = rec /\ \A d \in Callers : d # c => caller'[d] = caller[d]
  BY <1>1 DEF LiveControlTypeOK
<1>3. LiveControlTypeOK'
  BY <1>1 DEF LiveControlTypeOK, CallerRecord, Rows
<1>4. ASSUME NEW d \in Callers PROVE CallerOK(d)'
  <2>1. CallerOK(d) /\ caller[d] \in CallerRecord
    BY <1>1 DEF IInv, LiveControlTypeOK, CallerRecord
  <2>2. CASE d # c
    BY <2>1, <2>2, <1>2 DEF CallerOK, RequestOf, Rows
  <2>3. CASE d = c
    BY <2>1, <2>3, <1>2 DEF CallerOK, RequestOf, Rows, CallerRecord, Acting, Moved
  <2> QED
    BY <2>2, <2>3
<1>5. Unasked'
  <2>1. ASSUME NEW r \in Requests, r[2] > caller'[r[1]].asks PROVE r[2] > caller[r[1]].asks
    BY <2>1, <1>1, <1>2 DEF LiveControlTypeOK, Requests, CallerRecord, Moved
  <2> QED
    BY <2>1 DEF Unasked, IInv, Rows
<1>6. FirstAnswerCounts'
  BY <1>2 DEF IInv, FirstAnswerCounts, Rows, RequestOf, Moved
<1>7. WithdrawnIsForgotten'
  <2> SUFFICES ASSUME NEW r \in Requests, r \in pending \/ decision[r] # "none"
               PROVE (RequestOf(r[1]) = r /\ caller[r[1]].pc \in {"poll", "take", "answered"})'
    BY DEF WithdrawnIsForgotten, Rows
  <2>1. RequestOf(r[1]) = r /\ caller[r[1]].pc \in {"poll", "take", "answered"}
    BY DEF IInv, WithdrawnIsForgotten
  <2>2. r[1] \in Callers
    BY DEF Requests
  <2> QED
    BY <2>1, <2>2, <1>2 DEF RequestOf, Moved
<1> QED
  BY <1>3, <1>4, <1>5, <1>6, <1>7 DEF IInv

-----------------------------------------------------------------------------
(* The steps that touch a request.                                         *)

LEMMA AskStep ==
  ASSUME IInv, NEW c \in Callers, Ask(c)
  PROVE  IInv'
<1> USE ControlConstants
<1> DEFINE r == <<c, caller[c].asks + 1>>
<1>1. LiveControlTypeOK /\ CallerOK(c) /\ caller[c].pc = "ask" /\ caller[c] \in CallerRecord
  BY DEF IInv, Ask, At, LiveControlTypeOK, CallerRecord
<1>2. r \in Requests /\ caller[c].answer = "none" /\ caller[c].asks \in Nat
  BY <1>1 DEF CallerOK, Requests, CallerRecord, Acting
<1>3. /\ caller'[c] = [caller[c] EXCEPT !.pc = "poll", !.asks = @ + 1]
      /\ \A d \in Callers : d # c => caller'[d] = caller[d]
  BY <1>1 DEF Ask, LiveControlTypeOK
<1>4. /\ caller'[c].pc = "poll" /\ caller'[c].asks = caller[c].asks + 1
      /\ caller'[c].answer = "none" /\ caller'[c] \in CallerRecord
  <2>1. caller[c].asks < MaxAsks /\ caller[c].asks + 1 \in 0..MaxAsks
    BY <1>1, <1>2, ControlConstants DEF CallerOK, CallerRecord
  <2>2. "poll" \in Places
    BY DEF Places, Waiting
  <2> QED
    BY <1>1, <1>2, <1>3, <2>1, <2>2 DEF CallerRecord
<1>5. UNCHANGED <<decision, firstAnswer>> /\ pending' = pending \cup {r}
      /\ intent' = [intent EXCEPT ![r] = "ready"]
  BY DEF Ask
<1>6. LiveControlTypeOK'
  <2>1. caller' \in [Callers -> CallerRecord]
    BY <1>1, <1>3, <1>4 DEF LiveControlTypeOK, CallerRecord, Ask
  <2> QED
    BY <1>1, <1>2, <1>5, <2>1 DEF LiveControlTypeOK, Ask, CallerRecord
<1>7. firstAnswer[r] = "none" /\ decision[r] = "none"
  <2>1. r[1] = c /\ r[2] > caller[c].asks
    BY <1>2
  <2>2. RequestOf(c) # r
    BY <1>2 DEF RequestOf
  <2> QED
    BY <1>2, <2>1, <2>2 DEF IInv, Unasked, WithdrawnIsForgotten
<1>8. ASSUME NEW d \in Callers PROVE CallerOK(d)'
  <2>1. CASE d # c
    BY <2>1, <1>3, <1>5 DEF IInv, CallerOK, RequestOf
  <2>2. CASE d = c
    <3>1. RequestOf(c)' = r
      BY <1>4 DEF RequestOf
    <3> QED
      BY <2>2, <3>1, <1>2, <1>4, <1>5, <1>7 DEF CallerOK
  <2> QED
    BY <2>1, <2>2
<1>9. Unasked'
  <2> SUFFICES ASSUME NEW q \in Requests, q[2] > caller'[q[1]].asks PROVE firstAnswer'[q] = "none"
    BY DEF Unasked
  <2>1. q[1] \in Callers /\ q[2] \in Nat
    BY DEF Requests
  <2>2. q[2] > caller[q[1]].asks
    <3>1. CASE q[1] = c
      BY <2>1, <3>1, <1>2, <1>4
    <3>2. CASE q[1] # c
      BY <2>1, <3>2, <1>3
    <3> QED
      BY <3>1, <3>2
  <2> QED
    BY <2>2, <1>5 DEF IInv, Unasked
<1>10. FirstAnswerCounts'
  <2>1. \A d \in Callers : caller'[d].answer # "none" => caller'[d] = caller[d]
    BY <1>3, <1>4
  <2>2. \A q \in Requests : intent'[q] = "completed" => intent[q] = "completed"
    BY <1>1, <1>2, <1>5 DEF LiveControlTypeOK
  <2> QED
    BY <2>1, <2>2, <1>5 DEF IInv, FirstAnswerCounts, RequestOf
<1>11. WithdrawnIsForgotten'
  <2> SUFFICES ASSUME NEW q \in Requests, q \in pending' \/ decision'[q] # "none"
               PROVE (RequestOf(q[1]) = q /\ caller[q[1]].pc \in {"poll", "take", "answered"})'
    BY DEF WithdrawnIsForgotten
  <2>1. q[1] \in Callers
    BY DEF Requests
  <2>2. CASE q = r
    BY <2>2, <1>4 DEF RequestOf
  <2>3. CASE q # r
    <3>1. RequestOf(q[1]) = q /\ caller[q[1]].pc \in {"poll", "take", "answered"}
      BY <2>3, <1>5 DEF IInv, WithdrawnIsForgotten
    <3>2. q[1] # c
      BY <3>1, <1>1
    <3> QED
      BY <2>1, <3>1, <3>2, <1>3 DEF RequestOf
  <2> QED
    BY <2>2, <2>3
<1> QED
  BY <1>6, <1>8, <1>9, <1>10, <1>11 DEF IInv

(* An answer is taken; the request stays pending until it is recorded.     *)
LEMMA TakeStep ==
  ASSUME IInv, NEW c \in Callers, Take(c), decision[RequestOf(c)] # "none"
  PROVE  IInv'
<1> DEFINE r == RequestOf(c)
<1>1. LiveControlTypeOK /\ CallerOK(c) /\ caller[c].pc = "take" /\ caller[c] \in CallerRecord
  BY DEF IInv, Take, At, LiveControlTypeOK, CallerRecord
<1>2. r \in Requests /\ caller[c].asks # 0
  BY <1>1 DEF CallerOK, Requests, CallerRecord, RequestOf
<1>3. decision[r] = firstAnswer[r] /\ decision[r] \in {"yes", "no"}
  BY <1>1, <1>2 DEF CallerOK, LiveControlTypeOK, Answers
<1>4. /\ caller'[c] = [caller[c] EXCEPT !.pc = "answered", !.answer = decision[r]]
      /\ \A d \in Callers : d # c => caller'[d] = caller[d]
  BY <1>1 DEF Take, LiveControlTypeOK
<1>5. /\ caller'[c].pc = "answered" /\ caller'[c].asks = caller[c].asks
      /\ caller'[c].answer = decision[r] /\ caller'[c] \in CallerRecord
  BY <1>1, <1>3, <1>4 DEF CallerRecord, Places, Answers
<1>6. UNCHANGED <<pending, intent, firstAnswer>> /\ decision' = [decision EXCEPT ![r] = "none"]
  BY DEF Take
<1>7. /\ decision'[r] = "none"
      /\ \A q \in Requests : q # r => decision'[q] = decision[q]
  BY <1>1, <1>2, <1>6 DEF LiveControlTypeOK
<1>8. LiveControlTypeOK'
  <2>1. caller' \in [Callers -> CallerRecord]
    <3>1. caller' = [caller EXCEPT ![c] = caller'[c]]
      BY <1>1, <1>3, <1>5 DEF LiveControlTypeOK, Take
    <3> QED
      BY <1>1, <1>5, <3>1 DEF LiveControlTypeOK, CallerRecord
  <2>2. decision' \in [Requests -> Answers]
    BY <1>1, <1>2, <1>6 DEF LiveControlTypeOK, Answers
  <2> QED
    BY <1>1, <1>6, <2>1, <2>2 DEF LiveControlTypeOK, Take, CallerRecord
<1>9. ASSUME NEW d \in Callers PROVE CallerOK(d)'
  <2>1. CASE d # c
    <3>1. CallerOK(d) /\ RequestOf(d)' = RequestOf(d) /\ RequestOf(d) # r
      BY <2>1, <1>4 DEF IInv, RequestOf
    <3>2. caller[d] \in CallerRecord
      BY <1>1 DEF LiveControlTypeOK, CallerRecord
    <3>3. caller[d].pc \in {"poll", "take"} => RequestOf(d) \in Requests
      BY <3>1, <3>2 DEF CallerOK, RequestOf, Requests, CallerRecord
    <3> QED
      BY <2>1, <3>1, <3>3, <1>4, <1>6, <1>7 DEF CallerOK
  <2>2. CASE d = c
    BY <2>2, <1>2, <1>3, <1>5 DEF CallerOK, Acting
  <2> QED
    BY <2>1, <2>2
<1>10. Unasked'
  <2>1. \A q \in Requests : caller'[q[1]].asks = caller[q[1]].asks
    BY <1>4, <1>5 DEF Requests
  <2> QED
    BY <2>1, <1>6 DEF IInv, Unasked
<1>11. FirstAnswerCounts'
  <2>1. \A d \in Callers : RequestOf(d)' = RequestOf(d)
    BY <1>4, <1>5 DEF RequestOf
  <2> QED
    <3>1. \A d \in Callers : /\ d # c => caller'[d] = caller[d]
                             /\ d = c => caller'[d].answer = firstAnswer[r] /\ caller'[d].pc = "answered"
      BY <1>3, <1>4, <1>5
    <3> QED
      BY <2>1, <3>1, <1>6 DEF IInv, FirstAnswerCounts
<1>12. WithdrawnIsForgotten'
  <2>1. \A q \in Requests : decision'[q] # "none" => decision[q] # "none"
    BY <1>7
  <2>2. \A q \in Requests : q[1] \in Callers
    BY DEF Requests
  <2>3. \A d \in Callers : /\ RequestOf(d)' = RequestOf(d)
                           /\ \/ caller'[d].pc = caller[d].pc
                              \/ caller'[d].pc = "answered"
    BY <1>4, <1>5 DEF RequestOf
  <2> QED
    BY <2>1, <2>2, <2>3, <1>6 DEF IInv, WithdrawnIsForgotten
<1> QED
  BY <1>8, <1>9, <1>10, <1>11, <1>12 DEF IInv

(* Whatever ends a request takes it and its answer back.                   *)
LEMMA WithdrawStep ==
  ASSUME IInv, NEW c \in Callers, Withdraw(c), caller[c].pc \in {"poll", "answered"},
         NEW p \in {"last", "refused", "broken", "stopped"},
         caller' = [caller EXCEPT ![c].pc = p],
         caller[c].answer = "no" => p \in {"refused", "broken"},
         NEW state \in {"none", "ready", "dispatching", "running", "completed"},
         intent' = [intent EXCEPT ![RequestOf(c)] = state],
         state = "completed" => intent[RequestOf(c)] = "completed" \/ caller[c].answer # "none",
         UNCHANGED <<policy, stopEvent, pauseEvent, voiceStop, cancelling, firstAnswer>>
  PROVE  IInv'
<1> DEFINE r == RequestOf(c)
<1>1. LiveControlTypeOK /\ CallerOK(c) /\ caller[c] \in CallerRecord
  BY DEF IInv, LiveControlTypeOK, CallerRecord
<1>2. r \in Requests /\ caller[c].asks # 0
  BY <1>1 DEF CallerOK, Requests, CallerRecord, RequestOf
<1>3. /\ caller'[c] = [caller[c] EXCEPT !.pc = p]
      /\ \A d \in Callers : d # c => caller'[d] = caller[d]
  BY <1>1 DEF LiveControlTypeOK
<1>4. /\ caller'[c].pc = p /\ caller'[c].asks = caller[c].asks
      /\ caller'[c].answer = caller[c].answer /\ caller'[c] \in CallerRecord
  <2>1. p \in Places
    BY DEF Places, Waiting
  <2> QED
    BY <1>1, <1>3, <2>1 DEF CallerRecord
<1>5. /\ decision'[r] = "none" /\ pending' = pending \ {r}
      /\ \A q \in Requests : q # r => decision'[q] = decision[q] /\ intent'[q] = intent[q]
      /\ intent'[r] = state
  BY <1>1, <1>2 DEF LiveControlTypeOK, Withdraw
<1>6. LiveControlTypeOK'
  <2>1. caller' \in [Callers -> CallerRecord]
    <3>1. caller' = [caller EXCEPT ![c] = caller'[c]]
      BY <1>1, <1>3 DEF LiveControlTypeOK
    <3> QED
      BY <1>1, <1>4, <3>1 DEF LiveControlTypeOK, CallerRecord
  <2>2. decision' \in [Requests -> Answers]
    BY <1>1, <1>2 DEF LiveControlTypeOK, Answers, Withdraw
  <2>3. intent' \in [Requests -> {"none", "ready", "dispatching", "running", "completed"}]
    BY <1>1, <1>2 DEF LiveControlTypeOK
  <2> QED
    BY <1>1, <1>5, <2>1, <2>2, <2>3 DEF LiveControlTypeOK, CallerRecord
<1>7. ASSUME NEW d \in Callers PROVE CallerOK(d)'
  <2>1. CASE d # c
    <3>1. CallerOK(d) /\ RequestOf(d)' = RequestOf(d) /\ RequestOf(d) # r
      BY <2>1, <1>3 DEF IInv, RequestOf
    <3>2. caller[d] \in CallerRecord
      BY <1>1 DEF LiveControlTypeOK, CallerRecord
    <3>3. caller[d].pc \in {"poll", "take"} => RequestOf(d) \in Requests
      BY <3>1, <3>2 DEF CallerOK, RequestOf, Requests, CallerRecord
    <3> QED
      BY <2>1, <3>1, <3>3, <1>3, <1>5 DEF CallerOK
  <2>2. CASE d = c
    BY <2>2, <1>2, <1>4 DEF CallerOK, Acting
  <2> QED
    BY <2>1, <2>2
<1>8. Unasked'
  <2>1. \A q \in Requests : caller'[q[1]].asks = caller[q[1]].asks
    BY <1>3, <1>4 DEF Requests
  <2> QED
    BY <2>1 DEF IInv, Unasked
<1>9. FirstAnswerCounts'
  <2>1. \A d \in Callers : RequestOf(d)' = RequestOf(d)
    BY <1>3, <1>4 DEF RequestOf
  <2>2. ASSUME NEW d \in Callers
        PROVE  /\ caller'[d].answer # "none" => caller'[d].answer = firstAnswer'[RequestOf(d)']
               /\ caller'[d].answer = "no" => caller'[d].pc \in {"answered", "refused", "broken"}
    <3>1. CASE d # c
      BY <2>1, <3>1, <1>3 DEF IInv, FirstAnswerCounts
    <3>2. CASE d = c
      BY <2>1, <3>2, <1>4 DEF IInv, FirstAnswerCounts
    <3> QED
      BY <3>1, <3>2
  <2>3. ASSUME NEW q \in Requests, intent'[q] = "completed" PROVE firstAnswer'[q] # "none"
    <3>1. CASE q = r
      <4>1. intent[r] = "completed" => firstAnswer[r] # "none"
        BY <1>2 DEF IInv, FirstAnswerCounts
      <4>2. caller[c].answer # "none" => firstAnswer[r] # "none"
        BY DEF IInv, FirstAnswerCounts
      <4> QED
        BY <2>3, <3>1, <4>1, <4>2, <1>5
    <3>2. CASE q # r
      BY <2>3, <3>2, <1>5 DEF IInv, FirstAnswerCounts
    <3> QED
      BY <3>1, <3>2
  <2> QED
    BY <2>2, <2>3 DEF FirstAnswerCounts
<1>10. WithdrawnIsForgotten'
  <2> SUFFICES ASSUME NEW q \in Requests, q \in pending' \/ decision'[q] # "none"
               PROVE (RequestOf(q[1]) = q /\ caller[q[1]].pc \in {"poll", "take", "answered"})'
    BY DEF WithdrawnIsForgotten
  <2>1. q # r
    BY <1>5
  <2>2. RequestOf(q[1]) = q /\ caller[q[1]].pc \in {"poll", "take", "answered"} /\ q[1] \in Callers
    BY <2>1, <1>5 DEF IInv, WithdrawnIsForgotten, Requests
  <2>3. q[1] # c
    BY <2>1, <2>2
  <2> QED
    BY <2>2, <2>3, <1>3 DEF RequestOf
<1> QED
  BY <1>6, <1>7, <1>8, <1>9, <1>10 DEF IInv

(* An answer from the screen.                                              *)
LEMMA AnswerStep ==
  ASSUME IInv, NEW r \in Requests, NEW answer \in {"yes", "no"}, DecideApproval(r, answer)
  PROVE  IInv'
<1>1. LiveControlTypeOK /\ r \in pending /\ decision[r] = "none"
  BY DEF IInv, DecideApproval
<1>2. /\ UNCHANGED <<pending, intent, caller>>
      /\ decision'[r] = answer
      /\ firstAnswer'[r] = IF firstAnswer[r] = "none" THEN answer ELSE firstAnswer[r]
      /\ \A q \in Requests : q # r => decision'[q] = decision[q] /\ firstAnswer'[q] = firstAnswer[q]
  BY <1>1 DEF DecideApproval, LiveControlTypeOK
<1>3. RequestOf(r[1]) = r /\ caller[r[1]].pc \in {"poll", "take", "answered"} /\ r[1] \in Callers
  BY <1>1 DEF IInv, WithdrawnIsForgotten, Requests
<1>4. LiveControlTypeOK'
  <2>1. firstAnswer' \in [Requests -> Answers] /\ decision' \in [Requests -> Answers]
    BY <1>1 DEF LiveControlTypeOK, DecideApproval, Answers
  <2> QED
    BY <1>1, <2>1 DEF LiveControlTypeOK, DecideApproval
<1>5. ASSUME NEW d \in Callers PROVE CallerOK(d)'
  <2>1. CallerOK(d) /\ caller[d] \in CallerRecord
    BY <1>1 DEF IInv, LiveControlTypeOK, CallerRecord
  <2>2. caller[d].pc \in {"poll", "take"} => RequestOf(d) \in Requests
    BY <2>1 DEF CallerOK, RequestOf, Requests, CallerRecord
  <2>3. RequestOf(d)' = RequestOf(d)
    BY <1>2 DEF RequestOf
  <2> QED
    BY <2>1, <2>2, <2>3, <1>1, <1>2 DEF CallerOK
<1>6. Unasked'
  <2> SUFFICES ASSUME NEW q \in Requests, q[2] > caller[q[1]].asks PROVE firstAnswer'[q] = "none"
    BY <1>2 DEF Unasked
  <2>1. caller[r[1]] \in CallerRecord /\ r[2] = caller[r[1]].asks
    BY <1>1, <1>3 DEF LiveControlTypeOK, CallerRecord, RequestOf
  <2>2. q # r
    BY <2>1 DEF CallerRecord
  <2> QED
    BY <2>2, <1>2 DEF IInv, Unasked
<1>7. FirstAnswerCounts'
  <2>1. ASSUME NEW q \in Requests PROVE firstAnswer[q] # "none" => firstAnswer'[q] = firstAnswer[q]
    BY <1>2
  <2>2. ASSUME NEW d \in Callers, caller[d].answer # "none"
        PROVE  caller[d].answer = firstAnswer'[RequestOf(d)]
    <3>1. CallerOK(d) /\ caller[d] \in CallerRecord
      BY <1>1 DEF IInv, LiveControlTypeOK, CallerRecord
    <3>2. RequestOf(d) \in Requests
      BY <2>2, <3>1 DEF CallerOK, RequestOf, Requests, CallerRecord
    <3>3. caller[d].answer = firstAnswer[RequestOf(d)]
      BY <2>2 DEF IInv, FirstAnswerCounts
    <3> QED
      BY <2>1, <2>2, <3>2, <3>3
  <2> QED
    BY <2>1, <2>2, <1>2 DEF IInv, FirstAnswerCounts, RequestOf
<1>8. WithdrawnIsForgotten'
  BY <1>2, <1>3 DEF IInv, WithdrawnIsForgotten, RequestOf
<1> QED
  BY <1>4, <1>5, <1>6, <1>7, <1>8 DEF IInv

-----------------------------------------------------------------------------
(* Every step preserves the invariant.                                     *)

LEMMA CallerSteps ==
  ASSUME IInv, NEW c \in Callers, Authorize(c) \/ CallerStep(c)
  PROVE  IInv'
<1> USE ControlConstants
<1> DEFINE r == RequestOf(c)
           Moves(rec) == caller' = [caller EXCEPT ![c] = rec]
           Rest == <<policy, stopEvent, pauseEvent, voiceStop, cancelling, Rows>>
<1>1. LiveControlTypeOK /\ CallerOK(c) /\ caller[c] \in CallerRecord
  BY DEF IInv, LiveControlTypeOK, CallerRecord
<1>2. /\ caller[c].asks \in 0..MaxAsks /\ caller[c].answer \in Answers
      /\ caller[c].pc \in Places
      /\ caller[c] = [pc |-> caller[c].pc, asks |-> caller[c].asks, answer |-> caller[c].answer]
  BY <1>1 DEF CallerRecord
<1>3. /\ caller[c].answer = "no" => caller[c].pc \in {"answered", "refused", "broken"}
      /\ caller[c].pc \notin Acting => caller[c].answer = "none"
  BY <1>1 DEF IInv, FirstAnswerCounts, CallerOK
<1> HIDE DEF Rest
<1>4. ASSUME NEW p \in {"decide", "take", "final", "refused", "ask", "last", "granted", "stopped", "poll"},
             Go(c, p), UNCHANGED Rest,
             caller[c].pc \in {"entry", "poll", "last", "decide", "final", "take"},
             p \in {"decide", "ask"} => caller[c].pc \in {"entry", "decide"},
             (p \in {"take", "poll"}) <=> (caller[c].pc \in {"poll", "take"}),
             p = "refused" => caller[c].answer \in {"none", "yes"},
             caller[c].pc \in {"last", "final"} => p \in {"final", "granted", "refused", "stopped"}
      PROVE  IInv'
  <2> DEFINE rec == [pc |-> p, asks |-> caller[c].asks, answer |-> caller[c].answer]
  <2>1. rec \in CallerRecord
    BY <1>2 DEF CallerRecord, Places, Waiting
  <2>2. Moves(rec)
    <3>1. [caller[c] EXCEPT !.pc = p] = rec
      BY <1>2
    <3> QED
      BY <3>1, <1>4 DEF Go
  <2>3. caller[c].answer = "none" \/ (caller[c].answer = "yes" /\ p \in Acting)
    <3>1. CASE caller[c].pc \in {"last", "final"}
      <4>1. p \in Acting
        BY <1>4, <3>1 DEF Acting
      <4>2. caller[c].answer # "no"
        BY <1>3, <3>1
      <4> QED
        BY <1>2, <4>1, <4>2 DEF Answers
    <3>2. CASE caller[c].pc \in {"entry", "poll", "decide", "take"}
      <4>1. caller[c].pc \notin Acting
        BY <3>2 DEF Acting
      <4> QED
        BY <1>3, <4>1
    <3> QED
      BY <1>4, <3>1, <3>2
  <2>4. rec.pc \in {"entry", "decide", "ask"} => rec.asks < MaxAsks
    BY <1>1, <1>4 DEF CallerOK
  <2>5. UNCHANGED <<policy, stopEvent, pauseEvent, voiceStop, cancelling, Rows>>
    BY <1>4 DEF Rest
  <2> HIDE DEF rec
  <2>6. rec.pc = p /\ rec.asks = caller[c].asks /\ rec.answer = caller[c].answer
    BY DEF rec
  <2>7. Moved(c, rec)
    BY <1>2, <1>3, <1>4, <2>1, <2>3, <2>4, <2>6 DEF Moved
  <2> QED
    BY <2>2, <2>5, <2>7, MoveStep
<1>5. CASE Authorize(c)
  <2> DEFINE rec == [caller[c] EXCEPT !.pc = "entry", !.answer = "none"]
  <2>1. rec \in CallerRecord
    BY <1>1 DEF CallerRecord, Places, Waiting, Answers
  <2>2. caller[c].asks < MaxAsks /\ Moves(rec)
    BY <1>5 DEF Authorize
  <2>3. UNCHANGED <<policy, stopEvent, pauseEvent, voiceStop, cancelling, Rows>>
    BY <1>5 DEF Authorize, Rows
  <2>4. caller[c].pc \in {"idle", "granted", "refused"}
    BY <1>5 DEF Authorize
  <2>5. rec.pc = "entry" /\ rec.asks = caller[c].asks /\ rec.answer = "none"
    BY <1>1 DEF CallerRecord
  <2> HIDE DEF rec
  <2>6. Moved(c, rec)
    BY <1>2, <2>1, <2>2, <2>4, <2>5 DEF Moved
  <2> QED
    BY <2>2, <2>3, <2>6, MoveStep
<1>6. CASE AskFails(c)
  <2> DEFINE rec == [pc |-> "broken", asks |-> caller[c].asks + 1, answer |-> "none"]
  <2>1. caller[c].pc = "ask" /\ caller[c].asks < MaxAsks /\ caller[c].answer = "none"
    BY <1>1, <1>3, <1>6 DEF AskFails, At, CallerOK, Acting
  <2>2. rec \in CallerRecord
    BY <1>2, <2>1 DEF CallerRecord, Places, Answers
  <2>3. Moves(rec)
    BY <1>1, <1>2, <1>6, <2>1 DEF AskFails, LiveControlTypeOK
  <2>4. UNCHANGED <<policy, stopEvent, pauseEvent, voiceStop, cancelling, Rows>>
    BY <1>6 DEF AskFails, Rows
  <2>5. rec.pc = "broken" /\ rec.asks = caller[c].asks + 1 /\ rec.answer = "none"
    OBVIOUS
  <2> HIDE DEF rec
  <2>6. Moved(c, rec)
    BY <1>2, <2>1, <2>2, <2>5 DEF Moved
  <2> QED
    BY <2>3, <2>4, <2>6, MoveStep
<1>7. CASE Checkpoint(c)
  <2>1. UNCHANGED Rest
    BY <1>7 DEF Checkpoint, Rest, Rows
  <2> QED
    BY <1>4, <1>7, <2>1 DEF Checkpoint, At
<1>8. CASE Decide(c)
  <2>1. UNCHANGED Rest /\ caller[c].pc = "decide" /\ caller[c].answer = "none"
    BY <1>3, <1>8 DEF Decide, At, Rest, Rows, Acting
  <2>2. Go(c, "refused") \/ Go(c, "ask") \/ Go(c, "last")
    BY <1>1, <1>8 DEF Decide, LiveControlTypeOK
  <2> QED
    BY <1>4, <2>1, <2>2
<1>9. CASE Finish(c)
  <2>1. UNCHANGED Rest /\ caller[c].pc = "final" /\ caller[c].answer \in {"none", "yes"}
    BY <1>2, <1>3, <1>9 DEF Finish, At, Rest, Rows, Answers
  <2>2. Go(c, "refused") \/ Go(c, "granted")
    BY <1>9 DEF Finish
  <2> QED
    BY <1>4, <2>1, <2>2
<1>10. CASE Ask(c)
  BY <1>10, AskStep
<1>11. CASE Take(c)
  <2>1. CASE decision[r] = "none"
    <3>1. UNCHANGED Rest /\ Go(c, "poll") /\ caller[c].pc = "take"
      BY <1>11, <2>1 DEF Take, At, Rest, Rows
    <3> QED
      BY <1>4, <3>1
  <2>2. CASE decision[r] # "none"
    BY <1>11, <2>2, TakeStep
  <2> QED
    BY <2>1, <2>2
<1>12. CASE Record(c)
  <2>1. /\ caller[c].pc = "answered" /\ caller[c].answer # "none" /\ Withdraw(c)
        /\ UNCHANGED <<policy, stopEvent, pauseEvent, voiceStop, cancelling, firstAnswer>>
        /\ intent' = [intent EXCEPT ![r] = "completed"]
    BY <1>1, <1>12 DEF Record, At, CallerOK
  <2>2. Go(c, IF caller[c].answer = "yes" THEN "last" ELSE "refused")
    BY <1>12 DEF Record
  <2>3. CASE caller[c].answer = "yes"
    BY <2>1, <2>2, <2>3, WithdrawStep DEF Go
  <2>4. CASE caller[c].answer # "yes"
    BY <2>1, <2>2, <2>4, WithdrawStep DEF Go
  <2> QED
    BY <2>3, <2>4
<1>13. CASE RecordFails(c)
  <2>1. /\ caller[c].pc = "answered" /\ Withdraw(c) /\ Go(c, "broken")
        /\ UNCHANGED <<policy, stopEvent, pauseEvent, voiceStop, cancelling, firstAnswer>>
    BY <1>13 DEF RecordFails, At
  <2>2. PICK reached \in {"ready", "dispatching", "running"} : intent' = [intent EXCEPT ![r] = reached]
    BY <1>13 DEF RecordFails
  <2> QED
    BY <2>1, <2>2, WithdrawStep DEF Go
<1>14. CASE Stopped(c)
  <2>1. CASE caller[c].pc = "poll"
    <3>1. /\ Withdraw(c) /\ Go(c, "stopped")
          /\ UNCHANGED <<policy, stopEvent, pauseEvent, voiceStop, cancelling, firstAnswer, intent>>
      BY <1>14, <2>1 DEF Stopped, At
    <3>2. caller[c].answer = "none"
      BY <1>3, <2>1 DEF Acting
    <3>3. r \in Requests
      BY <1>1, <1>2, <2>1 DEF CallerOK, RequestOf, Requests
    <3>4. intent[r] \in {"none", "ready", "dispatching", "running", "completed"}
          /\ intent' = [intent EXCEPT ![r] = intent[r]]
      BY <1>1, <3>1, <3>3 DEF LiveControlTypeOK
    <3> QED
      BY <2>1, <3>1, <3>2, <3>4, WithdrawStep DEF Go
  <2>2. CASE caller[c].pc # "poll"
    <3>1. UNCHANGED Rest /\ Go(c, "stopped") /\ caller[c].pc \in {"entry", "last"}
      BY <1>14, <2>2 DEF Stopped, At, Rest, Rows
    <3> QED
      BY <1>4, <3>1
  <2> QED
    BY <2>1, <2>2
<1> QED
  BY <1>5, <1>6, <1>7, <1>8, <1>9, <1>10, <1>11, <1>12, <1>13, <1>14 DEF CallerStep

LEMMA NextIInv == IInv /\ [ControlNext]_controlVars => IInv'
<1> SUFFICES ASSUME IInv, [ControlNext]_controlVars PROVE IInv'
  OBVIOUS
<1>1. LiveControlTypeOK
  BY DEF IInv
<1>2. CASE UNCHANGED controlVars
  BY <1>1, <1>2, ScreenStep DEF controlVars, Rows, LiveControlTypeOK
<1>3. ASSUME NEW c \in Callers, Authorize(c) \/ CallerStep(c) PROVE IInv'
  BY <1>3, CallerSteps
<1>4. ASSUME NEW p \in {"allow", "ask", "deny"}, SetPolicy(p) PROVE IInv'
  BY <1>1, <1>4, ScreenStep DEF SetPolicy, Rows, LiveControlTypeOK
<1>5. ASSUME NEW r \in Requests, NEW answer \in {"yes", "no"}, DecideApproval(r, answer) PROVE IInv'
  BY <1>5, AnswerStep
<1>6. CASE Pause \/ Resume
  BY <1>1, <1>6, ScreenStep DEF Pause, Resume, Rows, LiveControlTypeOK
<1>7. CASE Cancel \/ CancelUnpauses \/ VoiceCancels
  BY <1>1, <1>7, ScreenStep DEF Cancel, CancelUnpauses, VoiceCancels, Rows, LiveControlTypeOK
<1> QED
  BY <1>2, <1>3, <1>4, <1>5, <1>6, <1>7 DEF ControlNext

LEMMA AlwaysIInv == ControlSpec => []IInv
  BY InitIInv, NextIInv, PTL DEF ControlSpec

-----------------------------------------------------------------------------
(* The variables keep their types.                                         *)
THEOREM ControlTypeCorrect == ControlSpec => []LiveControlTypeOK
<1>1. IInv => LiveControlTypeOK
  BY DEF IInv
<1> QED
  BY <1>1, AlwaysIInv, PTL

(* The answer a caller acts on is the first that was accepted for its      *)
(* request, and no is never overruled, however the screen's answers fall   *)
(* between the steps of decide_approval's waiting callers.                 *)
THEOREM FirstAnswersCount == ControlSpec => []FirstAnswerCounts
<1>1. IInv => FirstAnswerCounts
  BY DEF IInv
<1> QED
  BY <1>1, AlwaysIInv, PTL

(* A request that was withdrawn is not shown, and leaves no answer.        *)
THEOREM WithdrawnAreForgotten == ControlSpec => []WithdrawnIsForgotten
<1>1. IInv => WithdrawnIsForgotten
  BY DEF IInv
<1> QED
  BY <1>1, AlwaysIInv, PTL

-----------------------------------------------------------------------------
(* What a caller still does after a cancellation: how many steps of its    *)
(* own it takes at most until it waits for nothing and acts no more.       *)
StepsOf(c) ==
  CASE caller[c].pc \in {"take", "decide"} -> 3
    [] caller[c].pc \in {"answered", "ask"} -> 2
    [] caller[c].pc \in {"entry", "poll", "last", "final"} -> 1
    [] OTHER -> 0

StoppedRunOut ==
  Cancelled =>
    /\ Cancelled'
    /\ \A c \in Callers : caller'[c] # caller[c] =>
         \/ StepsOf(c)' < StepsOf(c)
         \/ caller[c].pc \in {"idle", "granted", "refused"} /\ caller'[c].pc = "entry"

LEMMA CallerStepCounts ==
  ASSUME LiveControlTypeOK, Cancelled, NEW c \in Callers, CallerStep(c)
  PROVE  StepsOf(c)' < StepsOf(c)
<1>1. caller[c].pc \in Places /\ caller \in [Callers -> CallerRecord]
  BY DEF LiveControlTypeOK, CallerRecord
<1>2. ASSUME NEW p, Go(c, p) PROVE caller'[c].pc = p
  BY <1>1, <1>2 DEF Go, CallerRecord
<1>3. CASE Checkpoint(c)
  BY <1>3 DEF Checkpoint, Passes
<1>4. CASE Decide(c)
  <2>1. caller[c].pc = "decide" /\ caller'[c].pc \in {"refused", "ask", "last"}
    <3>1. /\ caller[c].pc = "decide" /\ policy \in {"deny", "ask", "allow"}
          /\ Go(c, CASE policy = "deny" -> "refused"
                     [] policy = "ask" -> "ask"
                     [] policy = "allow" -> "last")
      BY <1>4 DEF Decide, At, LiveControlTypeOK
    <3> QED BY <1>2, <3>1
  <2> QED BY <2>1 DEF StepsOf
<1>5. CASE Ask(c) \/ AskFails(c)
  <2>1. caller[c].pc = "ask" /\ caller'[c].pc \in {"poll", "broken"}
    BY <1>1, <1>5 DEF Ask, AskFails, At, CallerRecord
  <2> QED BY <2>1 DEF StepsOf
<1>6. CASE Take(c)
  <2>1. caller[c].pc = "take" /\ caller'[c].pc \in {"poll", "answered"}
    BY <1>1, <1>6 DEF Take, At, Go, CallerRecord
  <2> QED BY <2>1 DEF StepsOf
<1>7. CASE Record(c) \/ RecordFails(c)
  <2>1. caller[c].pc = "answered" /\ caller'[c].pc \in {"last", "refused", "broken"}
    BY <1>2, <1>7 DEF Record, RecordFails, At
  <2> QED BY <2>1 DEF StepsOf
<1>8. CASE Finish(c)
  <2>1. caller[c].pc = "final" /\ caller'[c].pc \in {"refused", "granted"}
    BY <1>2, <1>8 DEF Finish, At
  <2> QED BY <2>1 DEF StepsOf
<1>9. CASE Stopped(c)
  <2>1. caller[c].pc \in {"entry", "poll", "last"} /\ caller'[c].pc = "stopped"
    BY <1>2, <1>9 DEF Stopped
  <2> QED BY <2>1 DEF StepsOf
<1> QED BY <1>3, <1>4, <1>5, <1>6, <1>7, <1>8, <1>9 DEF CallerStep

LEMMA CallerFlags ==
  ASSUME ControlNext, Cancelled
  PROVE  Cancelled'
<1>1. ASSUME NEW c \in Callers, Authorize(c) \/ CallerStep(c)
      PROVE  stopEvent' = stopEvent /\ voiceStop' = voiceStop
  BY <1>1 DEF Authorize, CallerStep, Checkpoint, Decide, Ask, AskFails, Take, Record, RecordFails,
              Finish, Stopped
<1> QED BY <1>1 DEF ControlNext, SetPolicy, DecideApproval, Pause, Resume, Cancel, CancelUnpauses,
                    VoiceCancels, Cancelled

LEMMA OneCallerMoves ==
  ASSUME LiveControlTypeOK, NEW d \in Callers, Authorize(d) \/ CallerStep(d),
         NEW c \in Callers, c # d
  PROVE  caller'[c] = caller[c]
<1>1. caller \in [Callers -> CallerRecord]
  BY DEF LiveControlTypeOK, CallerRecord
<1>2. \E r : caller' = [caller EXCEPT ![d] = r]
  BY <1>1 DEF Authorize, CallerStep, Checkpoint, Decide, Ask, AskFails, Take, Record, RecordFails,
              Finish, Stopped, Go
<1> QED BY <1>1, <1>2

(* A cancellation, by the screen or by voice, is never taken back, and     *)
(* after it a caller that was let in takes three steps at most, whatever   *)
(* the screen does meanwhile, answers, pauses and policies included        *)
(* (checkpoint() and request_approval(), projects/coding_runtime.py).      *)
THEOREM StoppedCallersRunOut == ControlSpec => [][StoppedRunOut]_controlVars
<1>1. ASSUME LiveControlTypeOK, ControlNext, Cancelled PROVE StoppedRunOut
  <2>1. Cancelled'
    BY <1>1, CallerFlags
  <2>2. ASSUME NEW c \in Callers, caller'[c] # caller[c]
        PROVE  \/ StepsOf(c)' < StepsOf(c)
               \/ caller[c].pc \in {"idle", "granted", "refused"} /\ caller'[c].pc = "entry"
    <3>1. PICK d \in Callers : Authorize(d) \/ CallerStep(d)
      BY <1>1, <2>2 DEF ControlNext, SetPolicy, DecideApproval, Pause, Resume, Cancel,
                        CancelUnpauses, VoiceCancels
    <3>2. d = c
      BY <1>1, <2>2, <3>1, OneCallerMoves
    <3>3. CASE Authorize(c)
      BY <1>1, <3>3 DEF Authorize, LiveControlTypeOK
    <3> QED BY <1>1, <3>1, <3>2, <3>3, CallerStepCounts
  <2> QED BY <2>1, <2>2 DEF StoppedRunOut
<1>2. IInv /\ [ControlNext]_controlVars => [StoppedRunOut]_controlVars
  BY <1>1 DEF IInv, StoppedRunOut
<1> QED BY <1>2, AlwaysIInv, PTL DEF ControlSpec

-----------------------------------------------------------------------------
(* Voice: the inductive invariant.                                         *)

Captures(threads, v) == {t \in threads : t.of = v /\ t.kind = "capture"}

(* What a controller, the lease and its captures have to do with each      *)
(* other: every generation has one capture at most, and the present one    *)
(* holds the lease and records for the present session.                    *)
OwnOK(v, its, lease, threads) ==
  /\ \A t \in Captures(threads, v) : t.number <= its.generation
  /\ \A t, u \in Captures(threads, v) : t.number = u.number => t = u
  /\ lease = v <=> \E t \in Captures(threads, v) : t.number = its.generation
  /\ \A t \in Captures(threads, v) : t.number = its.generation => t.origin = its.session

(* A device in use at the same time as the other one.                      *)
DevicesShared ==
  \A t \in Active("recording"), u \in Active("speaking") :
    voice[t.of].duplex /\ voice[u.of].duplex

Texts == {p \in posts : p.what = "text"}
SameTurn(x, y) == x.of = y.of /\ x.generation = y.generation
CapturedIn(t, x) == t.kind = "capture" /\ t.of = x.of /\ t.number = x.generation

TranscriptOK(x) ==
  /\ x.generation <= voice[x.of].generation
  /\ Current(x) => x.origin = voice[x.of].session
  /\ Current(x) /\ x.pc = "text" => voice[x.of].state = "transcribing"
PostOK(p) ==
  /\ p.generation <= voice[p.of].generation
  /\ Current(p) => (p.session = voice[p.of].session /\ p.origin = voice[p.of].session)

(* What was spoken in a generation is in one place: with the capture, with *)
(* the transcription, or with the text that is posted.                     *)
OnePlace ==
  /\ \A t \in workers : \A x \in transcripts : CapturedIn(t, x) => t.pc = "leaving"
  /\ \A t \in workers : \A p \in Texts : CapturedIn(t, p) => t.pc = "leaving"
  /\ \A x, y \in transcripts : SameTurn(x, y) => x = y
  /\ \A x \in transcripts : \A p \in Texts : ~SameTurn(x, p)

Coming(v) ==
  \/ \E p \in Texts : p.of = v /\ Current(p)
  \/ \E x \in transcripts : x.of = v /\ x.pc = "text" /\ Current(x)

TextsOK ==
  /\ \A x \in transcripts : TranscriptOK(x)
  /\ \A p \in posts : PostOK(p)
  /\ OnePlace
  /\ \A v \in Voices : voice[v].pending => Coming(v)

OwnsAll == \A v \in Voices : OwnOK(v, voice[v], microphone, workers)

VoiceInv == VoiceTypeOK /\ OwnsAll /\ DevicesShared /\ TextsOK

-----------------------------------------------------------------------------
(* Voice: worlds.  The pieces of a call lead from the world w the call     *)
(* found to others: the controller remains in its generation, or begins    *)
(* later ones, and what it owned it owns.                                  *)

Worlds == [me : Voices, its : Controller, lease : Voices \cup {Nobody}, threads : SUBSET Worker]

Later(i, j) == j.generation > i.generation /\ j.pending = FALSE
Stays(i, j) ==
  /\ j.generation = i.generation /\ j.session = i.session /\ j.pending = i.pending
  /\ i.state = "transcribing" => j.state = "transcribing"

Added(w, t) ==
  t.of = w.me /\ t.pc = "lock" /\ (t.kind = "capture" => t.number > w.its.generation)

Leads(w, u) ==
  /\ u \in Worlds /\ u.me = w.me /\ u.its.duplex = w.its.duplex
  /\ OwnOK(u.me, u.its, u.lease, u.threads)
  /\ w.threads \subseteq u.threads /\ \A t \in u.threads \ w.threads : Added(w, t)
  /\ u.lease = w.lease \/ {u.lease, w.lease} \subseteq {Nobody, w.me}
  /\ Stays(w.its, u.its) \/ Later(w.its, u.its)

(* A change of what only the controller itself looks at.                   *)
Edited(u, x) ==
  /\ x \in Worlds /\ x.me = u.me /\ x.lease = u.lease /\ x.threads = u.threads
  /\ x.its.generation = u.its.generation /\ x.its.session = u.its.session
  /\ x.its.pending = u.its.pending /\ x.its.duplex = u.its.duplex

LEMMA ItsWorld ==
  ASSUME NEW u \in Worlds, NEW i \in Controller
  PROVE  /\ [u EXCEPT !.its = i] \in Worlds /\ [u EXCEPT !.its = i].its = i
         /\ [u EXCEPT !.its = i].me = u.me /\ [u EXCEPT !.its = i].lease = u.lease
         /\ [u EXCEPT !.its = i].threads = u.threads
BY DEF Worlds

LEMMA WorldFields ==
  ASSUME NEW u \in Worlds
  PROVE  /\ u.me \in Voices /\ u.its \in Controller /\ u.lease \in Voices \cup {Nobody}
         /\ u.threads \subseteq Worker
BY DEF Worlds

LEMMA ControllerFields ==
  ASSUME NEW i \in Controller
  PROVE  /\ i.generation \in Nat /\ i.ticket \in Nat /\ i.queue \in Nat /\ i.completed \in Nat
         /\ i.session \in Conversations /\ i.state \in VoiceStates /\ i.pending \in BOOLEAN
         /\ i.duplex \in BOOLEAN /\ i.conversation \in BOOLEAN
BY DEF Controller

LEMMA EditStarts == ASSUME NEW w \in Worlds, OwnOK(w.me, w.its, w.lease, w.threads) PROVE Leads(w, w)
BY DEF Leads, Stays

LEMMA EditLeads ==
  ASSUME NEW w, NEW u, NEW x, Leads(w, u), Edited(u, x),
         x.its.state = u.its.state \/ Later(w.its, u.its) \/ u.its.state # "transcribing"
  PROVE  Leads(w, x) /\ (Later(w.its, u.its) => Later(w.its, x.its))
<1>1. OwnOK(x.me, x.its, x.lease, x.threads)
  BY DEF Leads, Edited, OwnOK
<1>2. Stays(w.its, x.its) \/ Later(w.its, x.its)
  BY DEF Leads, Edited, Stays, Later
<1>3. Later(w.its, u.its) => Later(w.its, x.its)
  BY DEF Edited, Later
<1> QED BY <1>1, <1>2, <1>3 DEF Leads, Edited

LEMMA EntersWorld ==
  ASSUME NEW u \in Worlds, NEW s \in VoiceStates
  PROVE  /\ Edited(u, Enters(u, s))
         /\ Enters(u, s).its.state \in {u.its.state, s}
         /\ (u.its.state = "transcribing" /\ s \notin Universal \cup {"review"}) =>
              Enters(u, s).its.state = u.its.state
         /\ s \in Universal => Enters(u, s).its.state = s
         /\ Enters(u, s).its.speech = u.its.speech /\ Enters(u, s).its.conversation = u.its.conversation
<1>1. [u EXCEPT !.its.state = s] = [u EXCEPT !.its = [u.its EXCEPT !.state = s]]
  OBVIOUS
<1>2. u.its \in Controller
  BY WorldFields
<1>3. /\ [u.its EXCEPT !.state = s] \in Controller
      /\ [u.its EXCEPT !.state = s].state = s
      /\ [u.its EXCEPT !.state = s].generation = u.its.generation
      /\ [u.its EXCEPT !.state = s].session = u.its.session
      /\ [u.its EXCEPT !.state = s].pending = u.its.pending
      /\ [u.its EXCEPT !.state = s].duplex = u.its.duplex
      /\ [u.its EXCEPT !.state = s].speech = u.its.speech
      /\ [u.its EXCEPT !.state = s].conversation = u.its.conversation
  BY <1>2 DEF Controller
<1>4. Edited(u, [u EXCEPT !.its.state = s]) /\ Edited(u, u)
      /\ [u EXCEPT !.its.state = s].its = [u.its EXCEPT !.state = s]
  BY <1>1, <1>2, <1>3, ItsWorld DEF Edited
<1>5. (u.its.state = "transcribing" /\ s \notin Universal \cup {"review"}) => Enters(u, s).its.state = u.its.state
  <2> SUFFICES ASSUME u.its.state = "transcribing", s \notin Universal \cup {"review"}
               PROVE  Enters(u, s).its.state = u.its.state
    OBVIOUS
  <2>1. Follow[u.its.state] = {"review"}
    BY DEF Follow, VoiceStates, Engaged, Universal
  <2>2. CASE s = u.its.state
    BY <1>3, <1>4, <2>2 DEF Enters
  <2>3. CASE s # u.its.state
    BY <2>1, <2>3 DEF Enters
  <2> QED BY <2>2, <2>3
<1> QED BY <1>3, <1>4, <1>5 DEF Enters

LEMMA EntersLeads ==
  ASSUME NEW w, NEW u, NEW s \in VoiceStates, Leads(w, u),
         Later(w.its, u.its) \/ u.its.state # "transcribing" \/ s \notin Universal \cup {"review"}
  PROVE  Leads(w, Enters(u, s)) /\ (Later(w.its, u.its) => Later(w.its, Enters(u, s).its))
<1>1. u \in Worlds
  BY DEF Leads
<1>2. Enters(u, s).its.state = u.its.state \/ Later(w.its, u.its) \/ u.its.state # "transcribing"
  BY <1>1, EntersWorld
<1> QED BY <1>1, <1>2, EntersWorld, EditLeads

LEMMA SilencedWorld ==
  ASSUME NEW u \in Worlds
  PROVE  Edited(u, Silenced(u)) /\ Silenced(u).its.state = u.its.state
         /\ Silenced(u).its.ticket = u.its.ticket + 1 /\ ~Silenced(u).its.speech
<1> DEFINE i == [u.its EXCEPT !.speech = FALSE, !.queue = 0, !.ticket = @ + 1]
<1>1. Silenced(u) = [u EXCEPT !.its = i]
  BY DEF Silenced, Worlds
<1>2. u.its \in Controller
  BY WorldFields
<1>3. i \in Controller
  <2> DEFINE a == [u.its EXCEPT !.ticket = @ + 1]
  <2> DEFINE b == [a EXCEPT !.queue = 0]
  <2> DEFINE c == [b EXCEPT !.speech = FALSE]
  <2>1. a \in Controller
    BY <1>2, ControllerFields DEF Controller
  <2>2. b \in Controller
    BY <1>2, <2>1, ControllerFields DEF Controller
  <2>3. c \in Controller
    BY <1>2, <2>2, ControllerFields DEF Controller
  <2>4. i = c
    BY <1>2 DEF Controller
  <2> QED BY <2>3, <2>4
<1>4. /\ i.generation = u.its.generation /\ i.session = u.its.session
      /\ i.pending = u.its.pending /\ i.duplex = u.its.duplex /\ i.state = u.its.state
  BY <1>2 DEF Controller
<1>5. i.ticket = u.its.ticket + 1 /\ ~i.speech
  BY <1>2 DEF Controller
<1> HIDE DEF i
<1> QED BY <1>1, <1>3, <1>4, <1>5, ItsWorld DEF Edited

LEMMA SilencedLeads ==
  ASSUME NEW w, NEW u, Leads(w, u)
  PROVE  Leads(w, Silenced(u)) /\ (Later(w.its, u.its) => Later(w.its, Silenced(u).its))
<1>1. u \in Worlds
  BY DEF Leads
<1> QED BY <1>1, SilencedWorld, EditLeads

(* Outdating the input, with what it does to the captures.                 *)
LEMMA OutdatedWorld ==
  ASSUME NEW u \in Worlds
  PROVE  /\ Outdated(u) \in Worlds /\ Outdated(u).me = u.me /\ Outdated(u).lease = u.lease
         /\ Outdated(u).threads = u.threads
         /\ Outdated(u).its.generation = u.its.generation + 1 /\ Outdated(u).its.pending = FALSE
         /\ Outdated(u).its.session = u.its.session /\ Outdated(u).its.duplex = u.its.duplex
         /\ Outdated(u).its.state = u.its.state
<1> DEFINE i == [u.its EXCEPT !.generation = @ + 1, !.pending = FALSE, !.review = FALSE]
<1>1. Outdated(u) = [u EXCEPT !.its = i]
  BY DEF Outdated, Worlds
<1>2. u.its \in Controller
  BY WorldFields
<1>3. i \in Controller
  <2> DEFINE a == [u.its EXCEPT !.generation = @ + 1]
  <2> DEFINE b == [a EXCEPT !.pending = FALSE]
  <2> DEFINE c == [b EXCEPT !.review = FALSE]
  <2>1. a \in Controller
    BY <1>2, ControllerFields DEF Controller
  <2>2. b \in Controller
    BY <1>2, <2>1, ControllerFields DEF Controller
  <2>3. c \in Controller
    BY <1>2, <2>2, ControllerFields DEF Controller
  <2>4. i = c
    BY <1>2 DEF Controller
  <2> QED BY <2>3, <2>4
<1>4. /\ i.generation = u.its.generation + 1 /\ i.session = u.its.session
      /\ i.pending = FALSE /\ i.duplex = u.its.duplex /\ i.state = u.its.state
  BY <1>2 DEF Controller
<1> HIDE DEF i
<1> QED BY <1>1, <1>3, <1>4, ItsWorld

LEMMA ReleasedWorld ==
  ASSUME NEW u \in Worlds
  PROVE  /\ Released(u) \in Worlds /\ Released(u).me = u.me /\ Released(u).threads = u.threads
         /\ Released(u).its = u.its
         /\ Released(u).lease # u.me
         /\ Released(u).lease = u.lease \/ {Released(u).lease, u.lease} \subseteq {Nobody, u.me}
<1>1. u.me \in Voices /\ Nobody \notin Voices
  BY WorldFields, VoiceConstants
<1> QED BY <1>1 DEF Released, Worlds

(* What Leads says, but for who has the lease and what the captures of the *)
(* present generation record for.                                          *)
Nearly(w, u) ==
  /\ u \in Worlds /\ u.me = w.me /\ u.its.duplex = w.its.duplex
  /\ \A t \in Captures(u.threads, u.me) : t.number <= u.its.generation
  /\ \A t, o \in Captures(u.threads, u.me) : t.number = o.number => t = o
  /\ w.threads \subseteq u.threads /\ \A t \in u.threads \ w.threads : Added(w, t)
  /\ u.lease = w.lease \/ {u.lease, w.lease} \subseteq {Nobody, w.me}
  /\ u.its.generation >= w.its.generation

LEMMA CaptureNumbers ==
  ASSUME NEW u \in Worlds, NEW t \in Captures(u.threads, u.me)
  PROVE  t \in Worker /\ t.number \in Nat
<1>1. t \in Worker /\ t.kind = "capture"
  BY WorldFields DEF Captures
<1> QED BY <1>1 DEF Worker

LEMMA LeadsNearly == ASSUME NEW w \in Worlds, NEW u, Leads(w, u) PROVE Nearly(w, u)
<1>1. w.its.generation \in Nat /\ u.its.generation \in Nat
  BY WorldFields, ControllerFields DEF Leads
<1>2. u.its.generation >= w.its.generation
  BY <1>1 DEF Leads, Stays, Later
<1> QED BY <1>2 DEF Leads, Nearly, OwnOK

LEMMA InputInvalidatedLeads ==
  ASSUME NEW w \in Worlds, NEW u, Nearly(w, u)
  PROVE  /\ Leads(w, InputInvalidated(u)) /\ Later(w.its, InputInvalidated(u).its)
         /\ InputInvalidated(u).its.state = u.its.state
         /\ InputInvalidated(u).its.session = u.its.session
         /\ InputInvalidated(u).lease # u.me /\ InputInvalidated(u).threads = u.threads
<1> DEFINE o == Outdated(u)
<1> DEFINE x == Released(o)
<1>1. u \in Worlds /\ w.its \in Controller
  BY WorldFields DEF Nearly
<1>2. o \in Worlds
  BY <1>1, OutdatedWorld
<1>a. o.me = u.me /\ o.lease = u.lease /\ o.threads = u.threads
  BY <1>1, OutdatedWorld
<1>b. /\ x \in Worlds /\ x.me = o.me /\ x.threads = o.threads /\ x.its = o.its /\ x.lease # o.me
      /\ x.lease = o.lease \/ {x.lease, o.lease} \subseteq {Nobody, o.me}
  BY <1>2, ReleasedWorld
<1>3. /\ x \in Worlds /\ x.me = u.me /\ x.threads = u.threads /\ x.its = o.its /\ x.lease # u.me
      /\ x.lease = u.lease \/ {x.lease, u.lease} \subseteq {Nobody, u.me}
  BY <1>a, <1>b
<1>4. /\ o.its.generation = u.its.generation + 1 /\ o.its.pending = FALSE
      /\ o.its.duplex = u.its.duplex /\ o.its.state = u.its.state
      /\ o.its.session = u.its.session
  BY <1>1, OutdatedWorld
<1>5. u.its \in Controller /\ u.its.generation \in Nat /\ w.its.generation \in Nat
  BY <1>1, WorldFields, ControllerFields
<1> HIDE DEF o, x
<1>6. \A t \in Captures(u.threads, u.me) : t.number <= u.its.generation /\ t.number \in Nat
  BY <1>1, CaptureNumbers DEF Nearly
<1>7. OwnOK(x.me, x.its, x.lease, x.threads)
  BY <1>3, <1>4, <1>5, <1>6 DEF Nearly, OwnOK
<1>8. Later(w.its, x.its)
  BY <1>3, <1>4, <1>5 DEF Nearly, Later
<1>9. x.lease = w.lease \/ {x.lease, w.lease} \subseteq {Nobody, w.me}
  BY <1>3 DEF Nearly
<1>10. x = InputInvalidated(u)
  BY DEF x, o, InputInvalidated
<1> QED BY <1>3, <1>4, <1>7, <1>8, <1>9, <1>10 DEF Leads, Nearly

LEMMA InvalidatedLeads ==
  ASSUME NEW w \in Worlds, NEW u, Leads(w, u)
  PROVE  /\ Leads(w, Invalidated(u)) /\ Later(w.its, Invalidated(u).its)
         /\ Invalidated(u).its.state = u.its.state /\ Invalidated(u).its.session = u.its.session
         /\ Invalidated(u).lease # u.me /\ Invalidated(u).threads = u.threads
<1>1. u \in Worlds
  BY DEF Leads
<1>2. Leads(w, Silenced(u)) /\ Silenced(u).its.state = u.its.state
      /\ Silenced(u).its.session = u.its.session /\ Silenced(u).me = u.me
      /\ Silenced(u).threads = u.threads
  BY <1>1, SilencedLeads, SilencedWorld DEF Edited
<1>3. Invalidated(u) = InputInvalidated(Silenced(u))
  BY DEF Invalidated, InputInvalidated
<1> QED BY <1>2, <1>3, LeadsNearly, InputInvalidatedLeads

-----------------------------------------------------------------------------
(* Voice: the pieces of a call.                                            *)

(* A field of the controller that decides nothing here.                    *)
Flags(u, x) ==
  Edited(u, x) /\ x.its.state = u.its.state

LEMMA FlagsWorld ==
  ASSUME NEW u \in Worlds, NEW b \in BOOLEAN
  PROVE  /\ Flags(u, [u EXCEPT !.its.paused = b]) /\ Flags(u, [u EXCEPT !.its.conversation = b])
         /\ Flags(u, [u EXCEPT !.its.busy = b]) /\ Flags(u, [u EXCEPT !.its.review = b])
         /\ Flags(u, [u EXCEPT !.its.speech = b])
<1>0. u.its \in Controller
  BY WorldFields
<1>1. Flags(u, [u EXCEPT !.its.paused = b])
  <2>1. [u EXCEPT !.its.paused = b] = [u EXCEPT !.its = [u.its EXCEPT !.paused = b]]
    OBVIOUS
  <2>2. [u.its EXCEPT !.paused = b] \in Controller
    BY <1>0 DEF Controller
  <2> QED BY <1>0, <2>1, <2>2, ItsWorld DEF Flags, Edited, Controller
<1>2. Flags(u, [u EXCEPT !.its.conversation = b])
  <2>1. [u EXCEPT !.its.conversation = b] = [u EXCEPT !.its = [u.its EXCEPT !.conversation = b]]
    OBVIOUS
  <2>2. [u.its EXCEPT !.conversation = b] \in Controller
    BY <1>0 DEF Controller
  <2> QED BY <1>0, <2>1, <2>2, ItsWorld DEF Flags, Edited, Controller
<1>3. Flags(u, [u EXCEPT !.its.busy = b])
  <2>1. [u EXCEPT !.its.busy = b] = [u EXCEPT !.its = [u.its EXCEPT !.busy = b]]
    OBVIOUS
  <2>2. [u.its EXCEPT !.busy = b] \in Controller
    BY <1>0 DEF Controller
  <2> QED BY <1>0, <2>1, <2>2, ItsWorld DEF Flags, Edited, Controller
<1>4. Flags(u, [u EXCEPT !.its.review = b])
  <2>1. [u EXCEPT !.its.review = b] = [u EXCEPT !.its = [u.its EXCEPT !.review = b]]
    OBVIOUS
  <2>2. [u.its EXCEPT !.review = b] \in Controller
    BY <1>0 DEF Controller
  <2> QED BY <1>0, <2>1, <2>2, ItsWorld DEF Flags, Edited, Controller
<1>5. Flags(u, [u EXCEPT !.its.speech = b])
  <2>1. [u EXCEPT !.its.speech = b] = [u EXCEPT !.its = [u.its EXCEPT !.speech = b]]
    OBVIOUS
  <2>2. [u.its EXCEPT !.speech = b] \in Controller
    BY <1>0 DEF Controller
  <2> QED BY <1>0, <2>1, <2>2, ItsWorld DEF Flags, Edited, Controller
<1> QED BY <1>1, <1>2, <1>3, <1>4, <1>5

LEMMA FlagsLeads ==
  ASSUME NEW w, NEW u, NEW x, Leads(w, u), Flags(u, x)
  PROVE  Leads(w, x) /\ (Later(w.its, u.its) => Later(w.its, x.its))
BY EditLeads DEF Flags

LEMMA FlagLeads ==
  ASSUME NEW w, NEW u, Leads(w, u), NEW b \in BOOLEAN
  PROVE  /\ Leads(w, [u EXCEPT !.its.paused = b]) /\ Leads(w, [u EXCEPT !.its.conversation = b])
         /\ Leads(w, [u EXCEPT !.its.busy = b]) /\ Leads(w, [u EXCEPT !.its.review = b])
<1>1. u \in Worlds
  BY DEF Leads
<1> QED BY <1>1, FlagsWorld, FlagsLeads

LEMMA FlagsTwice ==
  ASSUME NEW u, NEW x, NEW y, Flags(u, x), Flags(x, y)
  PROVE  Flags(u, y)
BY DEF Flags, Edited

LEMMA FailsLeads ==
  ASSUME NEW w \in Worlds, NEW u, Nearly(w, u)
  PROVE  /\ Leads(w, Fails(u)) /\ Later(w.its, Fails(u).its)
         /\ Fails(u).lease # u.me /\ Fails(u).threads = u.threads
<1> DEFINE x == InputInvalidated(u)
<1> DEFINE y == [x EXCEPT !.its.paused = u.its.conversation]
<1>1. Leads(w, x) /\ Later(w.its, x.its) /\ x.lease # u.me /\ x.threads = u.threads
  BY InputInvalidatedLeads
<1>2. x \in Worlds /\ u \in Worlds
  BY <1>1 DEF Leads, Nearly
<1>3. u.its.conversation \in BOOLEAN
  BY <1>2, WorldFields, ControllerFields
<1> HIDE DEF x
<1>4. Flags(x, y)
  BY <1>2, <1>3, FlagsWorld
<1>5. Fails(u) = Enters(y, "error")
  BY DEF Fails, x
<1> HIDE DEF y
<1>6. Leads(w, y) /\ Later(w.its, y.its)
  BY <1>1, <1>4, FlagsLeads
<1>7. y \in Worlds /\ y.lease # u.me /\ y.threads = u.threads
  BY <1>1, <1>4 DEF Flags, Edited
<1>8. Fails(u).lease # u.me /\ Fails(u).threads = u.threads
  BY <1>5, <1>7, EntersWorld DEF Edited, VoiceStates, Universal
<1> QED BY <1>5, <1>6, <1>8, EntersLeads DEF VoiceStates, Universal

(* The world in which a capture is about to begin.                         *)
Listens(u, keepSpeech) ==
  Enters([Outdated(IF keepSpeech THEN u ELSE Silenced(u)) EXCEPT !.lease = u.me], "listening")

LEMMA ListensWorld ==
  ASSUME NEW w \in Worlds, NEW u, Leads(w, u), u.lease \in {Nobody, u.me}, NEW keep \in BOOLEAN
  PROVE  /\ Nearly(w, Listens(u, keep))
         /\ Listens(u, keep) \in Worlds /\ Listens(u, keep).threads = u.threads
         /\ Listens(u, keep).me = u.me /\ Listens(u, keep).lease = u.me
         /\ Listens(u, keep).its.generation = u.its.generation + 1
         /\ Listens(u, keep).its.pending = FALSE /\ Listens(u, keep).its.session = u.its.session
<1> DEFINE q == IF keep THEN u ELSE Silenced(u)
<1> DEFINE o == Outdated(q)
<1> DEFINE c == [o EXCEPT !.lease = u.me]
<1> DEFINE l == Enters(c, "listening")
<1>1. u \in Worlds /\ u.me \in Voices
  BY WorldFields DEF Leads
<1>2. Edited(u, q)
  BY <1>1, SilencedWorld DEF Edited
<1> HIDE DEF q
<1>3. q \in Worlds
  BY <1>2 DEF Edited
<1>4. /\ o \in Worlds /\ o.me = u.me /\ o.threads = u.threads
      /\ o.its.generation = u.its.generation + 1 /\ o.its.pending = FALSE
      /\ o.its.session = u.its.session /\ o.its.duplex = u.its.duplex
  BY <1>2, <1>3, OutdatedWorld DEF Edited
<1> HIDE DEF o
<1>5. c \in Worlds /\ c.me = u.me /\ c.threads = u.threads /\ c.its = o.its /\ c.lease = u.me
  BY <1>1, <1>4 DEF Worlds
<1> HIDE DEF c
<1>6. Edited(c, l)
  BY <1>5, EntersWorld DEF VoiceStates, Engaged
<1>7. l = Listens(u, keep)
  BY DEF l, c, o, q, Listens
<1> HIDE DEF l
<1>8. /\ l \in Worlds /\ l.threads = u.threads /\ l.me = u.me /\ l.lease = u.me
      /\ l.its.generation = u.its.generation + 1
      /\ l.its.pending = FALSE /\ l.its.session = u.its.session /\ l.its.duplex = u.its.duplex
  BY <1>4, <1>5, <1>6 DEF Edited
<1>9. u.its.generation \in Nat /\ w.its.generation \in Nat
  BY <1>1, WorldFields, ControllerFields
<1>10. \A t \in Captures(u.threads, u.me) : t.number \in Nat
  BY <1>1, CaptureNumbers
<1>11. Nearly(w, u)
  BY LeadsNearly
<1>12. \A t \in Captures(l.threads, l.me) : t.number <= l.its.generation
  BY <1>8, <1>9, <1>10, <1>11 DEF Nearly
<1>13. l.its.generation >= w.its.generation
  BY <1>8, <1>9, <1>11 DEF Nearly
<1>14. l.lease = w.lease \/ {l.lease, w.lease} \subseteq {Nobody, w.me}
  BY <1>8, <1>11 DEF Nearly
<1>15. Nearly(w, l)
  BY <1>8, <1>11, <1>12, <1>13, <1>14 DEF Nearly
<1> QED BY <1>7, <1>8, <1>15

NewCapture(u, l, mode) ==
  [of |-> u.me, kind |-> "capture", number |-> l.its.generation,
   origin |-> u.its.session, mode |-> mode, pc |-> "lock"]

LEMMA BeginsWorld ==
  ASSUME NEW w \in Worlds, NEW u, Leads(w, u), u.lease \in {Nobody, u.me}, NEW keep \in BOOLEAN,
         NEW mode \in {"ptt", "conversation"}
  PROVE  LET l == Listens(u, keep)
             x == [l EXCEPT !.threads = @ \cup {NewCapture(u, l, mode)}]
         IN Leads(w, x) /\ Later(w.its, x.its)
<1> DEFINE l == Listens(u, keep)
<1> DEFINE n == NewCapture(u, l, mode)
<1> DEFINE x == [l EXCEPT !.threads = @ \cup {n}]
<1>1. /\ Nearly(w, l) /\ l \in Worlds /\ l.threads = u.threads /\ l.me = u.me /\ l.lease = u.me
      /\ l.its.generation = u.its.generation + 1
      /\ l.its.pending = FALSE /\ l.its.session = u.its.session
  BY ListensWorld
<1>2. u \in Worlds /\ u.its \in Controller /\ u.me \in Voices /\ w.its.generation \in Nat
      /\ u.its.generation \in Nat /\ u.its.session \in Conversations
  BY WorldFields, ControllerFields DEF Leads
<1> HIDE DEF l
<1>3. /\ n \in Worker /\ n.of = u.me /\ n.kind = "capture" /\ n.number = l.its.generation
      /\ n.pc = "lock" /\ n.origin = u.its.session
  BY <1>1, <1>2 DEF NewCapture, Worker
<1> HIDE DEF n
<1>4. /\ x \in Worlds /\ x.threads = u.threads \cup {n} /\ x.me = u.me /\ x.its = l.its
      /\ x.lease = u.me
  BY <1>1, <1>3 DEF Worlds
<1> HIDE DEF x
<1>5. \A t \in Captures(u.threads, u.me) : t.number \in Nat /\ t.number <= u.its.generation
  BY <1>2, CaptureNumbers DEF Leads, OwnOK
<1>6. Captures(x.threads, x.me) = Captures(u.threads, u.me) \cup {n}
  BY <1>3, <1>4 DEF Captures
<1>7. \A t \in Captures(x.threads, x.me) : t.number <= x.its.generation
  BY <1>1, <1>2, <1>3, <1>4, <1>5, <1>6
<1>8. \A t \in Captures(u.threads, u.me) : t.number # n.number
  BY <1>1, <1>2, <1>3, <1>5
<1>9. \A t, o \in Captures(x.threads, x.me) : t.number = o.number => t = o
  BY <1>6, <1>8 DEF Leads, OwnOK
<1>10. \A t \in Captures(x.threads, x.me) : t.number = x.its.generation => t.origin = x.its.session
  BY <1>1, <1>3, <1>4, <1>6, <1>8
<1>11. OwnOK(x.me, x.its, x.lease, x.threads)
  <2>1. x.lease = x.me /\ \E t \in Captures(x.threads, x.me) : t.number = x.its.generation
    BY <1>3, <1>4, <1>6
  <2> QED BY <2>1, <1>7, <1>9, <1>10 DEF OwnOK
<1>12. Later(w.its, x.its)
  <2>1. u.its.generation >= w.its.generation
    BY LeadsNearly DEF Nearly
  <2> QED BY <2>1, <1>1, <1>2, <1>4 DEF Later
<1>13. w.threads \subseteq x.threads /\ \A t \in x.threads \ w.threads : Added(w, t)
  <2>1. n.number > w.its.generation
    BY <1>1, <1>2, <1>3, <1>4, <1>12 DEF Later
  <2>2. Added(w, n)
    BY <1>3, <2>1 DEF Added, Leads
  <2> QED BY <1>4, <2>2 DEF Leads
<1>14. Leads(w, x)
  BY <1>1, <1>4, <1>11, <1>12, <1>13 DEF Leads, Nearly
<1>15. x = [l EXCEPT !.threads = @ \cup {n}]
  BY DEF x
<1> QED BY <1>12, <1>14 DEF x, n, l

LEMMA BeginsCaptureLeads ==
  ASSUME NEW w \in Worlds, NEW u, Leads(w, u), NEW mode \in {"ptt", "conversation"},
         NEW keep \in BOOLEAN, NEW replaces \in BOOLEAN
  PROVE  /\ Leads(w, BeginsCapture(u, mode, keep, replaces))
         /\ Later(w.its, u.its) => Later(w.its, BeginsCapture(u, mode, keep, replaces).its)
<1> DEFINE l == Listens(u, keep)
<1>1. BeginsCapture(u, mode, keep, replaces) =
        IF ~MayCapture(u, mode, replaces) THEN u
        ELSE IF HasRoom(u) THEN [l EXCEPT !.threads = @ \cup {NewCapture(u, l, mode)}]
        ELSE Fails(l)
  BY DEF BeginsCapture, Listens, NewCapture
<1>2. CASE ~MayCapture(u, mode, replaces)
  BY <1>1, <1>2
<1>3. CASE MayCapture(u, mode, replaces)
  <2>1. u.lease \in {Nobody, u.me}
    BY <1>3 DEF MayCapture
  <2>2. CASE HasRoom(u)
    <3>1. BeginsCapture(u, mode, keep, replaces) = [l EXCEPT !.threads = @ \cup {NewCapture(u, l, mode)}]
      BY <1>1, <1>3, <2>2
    <3> HIDE DEF l
    <3> QED BY <3>1, <2>1, BeginsWorld DEF l
  <2>3. CASE ~HasRoom(u)
    <3>1. Nearly(w, l)
      BY <2>1, ListensWorld
    <3>2. BeginsCapture(u, mode, keep, replaces) = Fails(l)
      BY <1>1, <1>3, <2>3
    <3> HIDE DEF l
    <3> QED BY <3>1, <3>2, FailsLeads
  <2> QED BY <2>2, <2>3
<1> QED BY <1>2, <1>3

LEMMA ResumesLeads ==
  ASSUME NEW w \in Worlds, NEW u, Leads(w, u)
  PROVE  /\ Leads(w, ResumesIfNeeded(u))
         /\ Later(w.its, u.its) => Later(w.its, ResumesIfNeeded(u).its)
<1>1. u.its.speech \in BOOLEAN
  BY WorldFields DEF Leads, Controller
<1> QED BY <1>1, BeginsCaptureLeads DEF ResumesIfNeeded

LEMMA StopsSpeakingLeads ==
  ASSUME NEW w \in Worlds, NEW u, Leads(w, u)
  PROVE  /\ Leads(w, StopsSpeaking(u))
         /\ Later(w.its, u.its) => Later(w.its, StopsSpeaking(u).its)
<1> DEFINE s == Silenced(u)
<1> DEFINE e == Enters(s, "idle")
<1>1. u \in Worlds
  BY DEF Leads
<1>2. /\ Leads(w, s) /\ (Later(w.its, u.its) => Later(w.its, s.its))
      /\ s.its.state = u.its.state
  BY <1>1, SilencedLeads, SilencedWorld
<1>3. StopsSpeaking(u) = IF ~u.its.speech THEN u
                         ELSE IF u.its.state = "speaking" THEN ResumesIfNeeded(e) ELSE s
  BY DEF StopsSpeaking
<1> HIDE DEF s
<1>4. CASE u.its.speech /\ u.its.state = "speaking"
  <2>1. Leads(w, e) /\ (Later(w.its, s.its) => Later(w.its, e.its))
    BY <1>2, <1>4, EntersLeads DEF VoiceStates, Universal
  <2> HIDE DEF e
  <2>2. StopsSpeaking(u) = ResumesIfNeeded(e)
    BY <1>3, <1>4
  <2> QED BY <1>2, <2>1, <2>2, ResumesLeads
<1>5. CASE ~(u.its.speech /\ u.its.state = "speaking")
  <2>1. StopsSpeaking(u) \in {u, s}
    BY <1>3, <1>5
  <2> QED BY <1>2, <2>1
<1> QED BY <1>4, <1>5

(* A thread that speaks is not a capture.                                  *)
LEMMA SpeechAdded ==
  ASSUME NEW w \in Worlds, NEW u, Leads(w, u), NEW n \in Nat
  PROVE  LET t == [of |-> u.me, kind |-> "speech", number |-> n, pc |-> "lock"]
             x == [u EXCEPT !.threads = @ \cup {t}]
         IN Leads(w, x) /\ (Later(w.its, u.its) => Later(w.its, x.its))
<1> DEFINE t == [of |-> u.me, kind |-> "speech", number |-> n, pc |-> "lock"]
<1> DEFINE x == [u EXCEPT !.threads = @ \cup {t}]
<1>1. u \in Worlds /\ u.me \in Voices /\ u.me = w.me
  BY WorldFields DEF Leads
<1>2. t \in Worker /\ t.of = u.me /\ t.kind = "speech" /\ t.pc = "lock"
  BY <1>1 DEF Worker
<1>3. t.kind # "capture"
  BY <1>2
<1> HIDE DEF t
<1>4. /\ x \in Worlds /\ x.threads = u.threads \cup {t} /\ x.me = u.me /\ x.its = u.its
      /\ x.lease = u.lease
  BY <1>1, <1>2 DEF Worlds
<1> HIDE DEF x
<1>5. Captures(x.threads, x.me) = Captures(u.threads, u.me)
  BY <1>3, <1>4 DEF Captures
<1>6. OwnOK(x.me, x.its, x.lease, x.threads)
  BY <1>4, <1>5 DEF Leads, OwnOK
<1>7. Added(w, t)
  BY <1>1, <1>2, <1>3 DEF Added
<1>8. Leads(w, x) /\ (Later(w.its, u.its) => Later(w.its, x.its))
  BY <1>4, <1>6, <1>7 DEF Leads
<1> QED BY <1>8 DEF x, t

LEMMA QueuedWorld ==
  ASSUME NEW u \in Worlds, NEW n \in Nat
  PROVE  Flags(u, [u EXCEPT !.its.queue = n])
<1>0. u.its \in Controller
  BY WorldFields
<1>1. [u EXCEPT !.its.queue = n] = [u EXCEPT !.its = [u.its EXCEPT !.queue = n]]
  OBVIOUS
<1>2. [u.its EXCEPT !.queue = n] \in Controller
  BY <1>0 DEF Controller
<1> QED BY <1>0, <1>1, <1>2, ItsWorld DEF Flags, Edited, Controller

LEMMA SpeaksLeads ==
  ASSUME NEW w \in Worlds, NEW u, Leads(w, u)
  PROVE  Leads(w, Speaks(u))
<1> DEFINE i == Invalidated(u)
<1> DEFINE f == [i EXCEPT !.its.speech = TRUE]
<1> DEFINE speaks == Enters(f, "speaking")
<1> DEFINE stopped == StopsSpeaking(speaks)
<1> DEFINE t == [of |-> u.me, kind |-> "speech", number |-> speaks.its.ticket, pc |-> "lock"]
<1> DEFINE started == [speaks EXCEPT !.threads = @ \cup {t}]
<1>1. Leads(w, i)
  BY InvalidatedLeads
<1> HIDE DEF i
<1>2. Flags(i, f)
  BY <1>1, FlagsWorld DEF Leads
<1> HIDE DEF f
<1>3. Leads(w, f)
  BY <1>1, <1>2, FlagsLeads
<1>4. Leads(w, speaks)
  BY <1>3, EntersLeads DEF VoiceStates, Universal
<1>d. Speaks(u) = IF u.its.speech THEN [u EXCEPT !.its.queue = @ + 1]
                  ELSE IF ~HasRoom(u) THEN
                    IF stopped.its.generation = speaks.its.generation THEN Fails(stopped) ELSE stopped
                  ELSE IF started.its.conversation /\ ~started.its.paused /\ started.its.duplex
                    THEN BeginsCapture(started, "conversation", TRUE, FALSE) ELSE started
  BY DEF Speaks, speaks, f, i
<1>5. speaks.me = u.me /\ speaks.its.ticket \in Nat
  BY <1>4, WorldFields, ControllerFields DEF Leads
<1> HIDE DEF speaks
<1>6. Leads(w, stopped)
  BY <1>4, StopsSpeakingLeads
<1>7. Leads(w, Fails(stopped))
  BY <1>6, LeadsNearly, FailsLeads
<1>8. Leads(w, started)
  <2>1. started = [speaks EXCEPT !.threads = @ \cup
                     {[of |-> speaks.me, kind |-> "speech", number |-> speaks.its.ticket, pc |-> "lock"]}]
    BY <1>5
  <2> QED BY <1>4, <1>5, <2>1, SpeechAdded
<1> HIDE DEF started, stopped
<1>9. Leads(w, BeginsCapture(started, "conversation", TRUE, FALSE))
  BY <1>8, BeginsCaptureLeads
<1>10. Leads(w, [u EXCEPT !.its.queue = @ + 1])
  <2>1. u.its.queue + 1 \in Nat /\ u \in Worlds
    BY WorldFields, ControllerFields DEF Leads
  <2>2. [u EXCEPT !.its.queue = @ + 1] = [u EXCEPT !.its.queue = u.its.queue + 1]
    OBVIOUS
  <2> QED BY <2>1, <2>2, QueuedWorld, FlagsLeads
<1> QED BY <1>d, <1>6, <1>7, <1>8, <1>9, <1>10

LEMMA CancelsLeads ==
  ASSUME NEW w \in Worlds, NEW u, Leads(w, u)
  PROVE  Leads(w, Cancels(u)) /\ Later(w.its, Cancels(u).its) /\ Cancels(u).lease # u.me
<1> DEFINE i == Invalidated(u)
<1> DEFINE c == [i EXCEPT !.its.conversation = FALSE]
<1> DEFINE p == [c EXCEPT !.its.paused = FALSE]
<1>1. Leads(w, i) /\ Later(w.its, i.its) /\ i \in Worlds /\ i.lease # u.me
  BY InvalidatedLeads DEF Leads
<1> HIDE DEF i
<1>2. Flags(i, c)
  BY <1>1, FlagsWorld
<1>3. Leads(w, c) /\ Later(w.its, c.its)
  BY <1>1, <1>2, FlagsLeads
<1>c. c \in Worlds
  BY <1>3 DEF Leads
<1>4. [i EXCEPT !.its.conversation = FALSE, !.its.paused = FALSE] = p
  OBVIOUS
<1> HIDE DEF c
<1>5. Flags(c, p)
  BY <1>c, FlagsWorld
<1>6. Leads(w, p) /\ Later(w.its, p.its)
  BY <1>3, <1>5, FlagsLeads
<1>7. Cancels(u) = Enters(p, "idle")
  BY <1>4 DEF Cancels, i
<1>8. p.lease # u.me /\ p \in Worlds
  BY <1>1, <1>2, <1>5 DEF Flags, Edited
<1> HIDE DEF p
<1>9. Cancels(u).lease # u.me
  BY <1>7, <1>8, EntersWorld DEF Edited, VoiceStates, Universal
<1> QED BY <1>6, <1>7, <1>9, EntersLeads DEF VoiceStates, Universal

LEMMA PausesLeads ==
  ASSUME NEW w \in Worlds, NEW u, Leads(w, u)
  PROVE  Leads(w, Pauses(u)) /\ Later(w.its, Pauses(u).its)
<1> DEFINE i == InputInvalidated(u)
<1> DEFINE p == [i EXCEPT !.its.paused = TRUE]
<1>1. Leads(w, i) /\ Later(w.its, i.its) /\ i \in Worlds
  BY LeadsNearly, InputInvalidatedLeads DEF Leads
<1> HIDE DEF i
<1>2. Flags(i, p)
  BY <1>1, FlagsWorld
<1>3. Leads(w, p) /\ Later(w.its, p.its)
  BY <1>1, <1>2, FlagsLeads
<1>4. Pauses(u) = Enters(p, "interrupted")
  BY DEF Pauses, i
<1> HIDE DEF p
<1> QED BY <1>3, <1>4, EntersLeads DEF VoiceStates, Universal

LEMMA ThinksLeads ==
  ASSUME NEW w \in Worlds, NEW u, Leads(w, u)
  PROVE  Leads(w, Thinks(u))
<1> DEFINE b == [u EXCEPT !.its.busy = TRUE]
<1> DEFINE v == Invalidated(b)
<1> DEFINE e == Enters(v, "interrupted")
<1> DEFINE q == IF u.its.state \in {"listening", "detected", "transcribing"} THEN e ELSE b
<1> DEFINE r == [q EXCEPT !.its.review = FALSE]
<1>d. Thinks(u) = Enters(r, "thinking")
  BY DEF Thinks
<1>1. Flags(u, b)
  BY FlagsWorld DEF Leads
<1> HIDE DEF b
<1>2. Leads(w, b)
  BY <1>1, FlagsLeads
<1>3. Leads(w, v) /\ Later(w.its, v.its)
  BY <1>2, InvalidatedLeads
<1> HIDE DEF v
<1>4. Leads(w, e)
  BY <1>3, EntersLeads DEF VoiceStates, Universal
<1> HIDE DEF e
<1>5. Leads(w, q) /\ q \in Worlds
  BY <1>2, <1>4 DEF Leads
<1> HIDE DEF q
<1>6. Flags(q, r)
  BY <1>5, FlagsWorld
<1>7. Leads(w, r)
  BY <1>5, <1>6, FlagsLeads
<1> HIDE DEF r
<1> QED BY <1>d, <1>7, EntersLeads DEF VoiceStates, Universal

-----------------------------------------------------------------------------
(* Voice: what a step does to the controllers and the threads.             *)

Advances(i, j) ==
  \/ j.generation > i.generation
  \/ /\ j.generation = i.generation /\ j.session = i.session
     /\ i.state = "transcribing" => j.state = "transcribing"

TurnsOn == \A v \in Voices :
  voice'[v].duplex = voice[v].duplex /\ Advances(voice[v], voice'[v])

(* No controller begins to wait for a text.                                *)
ExpectsNoMore == \A v \in Voices : voice'[v].pending =>
  (voice[v].pending /\ voice'[v].generation = voice[v].generation)

(* A thread is the one it was, or a new one of a generation to come.       *)
Descends == \A t \in workers' :
  \/ \E o \in workers :
       /\ o.of = t.of /\ o.kind = t.kind /\ o.number = t.number
       /\ o.pc = "leaving" => t.pc = "leaving"
  \/ /\ t.of \in Voices /\ t.pc = "lock"
     /\ t.kind = "capture" => t.number > voice[t.of].generation

(* Nobody begins to use a device.                                          *)
TakesNoDevice == \A t \in workers' : t.pc \in {"recording", "speaking"} =>
  \E o \in workers : o.of = t.of /\ o.pc = t.pc

ThreadsSound ==
  /\ voice' \in [Voices -> Controller] /\ microphone' \in Voices \cup {Nobody}
  /\ workers' \subseteq Worker
  /\ OwnsAll' /\ TurnsOn /\ Descends

LEMMA VoiceFields ==
  ASSUME VoiceTypeOK, NEW v \in Voices
  PROVE  voice[v] \in Controller /\ voice[v].generation \in Nat /\ voice[v].ticket \in Nat
         /\ voice[v].pending \in BOOLEAN
BY ControllerFields DEF VoiceTypeOK

LEMMA WorldOf ==
  ASSUME VoiceTypeOK, OwnsAll, NEW v \in Voices
  PROVE  /\ World(v) \in Worlds /\ World(v).me = v /\ World(v).its = voice[v]
         /\ World(v).lease = microphone /\ World(v).threads = workers
         /\ Leads(World(v), World(v))
<1>1. /\ World(v) \in Worlds /\ World(v).me = v /\ World(v).its = voice[v]
      /\ World(v).lease = microphone /\ World(v).threads = workers
  BY DEF World, Worlds, VoiceTypeOK
<1> QED BY <1>1, EditStarts DEF OwnsAll

LEMMA OwnKeeps ==
  ASSUME VoiceTypeOK, OwnsAll, NEW v \in Voices, NEW i \in Controller, NEW l \in Voices \cup {Nobody},
         voice' = [voice EXCEPT ![v] = i], microphone' = l,
         l = microphone \/ {l, microphone} \subseteq {Nobody, v},
         \A o \in Voices \ {v} : Captures(workers', o) = Captures(workers, o),
         OwnOK(v, i, l, workers')
  PROVE  OwnsAll'
<1> SUFFICES ASSUME NEW o \in Voices PROVE OwnOK(o, voice'[o], microphone', workers')
  BY DEF OwnsAll
<1>1. CASE o = v
  BY <1>1 DEF VoiceTypeOK
<1>2. CASE o # v
  <2>1. voice'[o] = voice[o] /\ Captures(workers', o) = Captures(workers, o)
    BY <1>2 DEF VoiceTypeOK
  <2>2. o # Nobody /\ (microphone' = o <=> microphone = o)
    BY <1>2, VoiceConstants
  <2>3. OwnOK(o, voice[o], microphone, workers)
    BY DEF OwnsAll
  <2> QED BY <2>1, <2>2, <2>3 DEF OwnOK
<1> QED BY <1>1, <1>2

LEMMA StaysOrLater ==
  ASSUME VoiceTypeOK, NEW v \in Voices, NEW i \in Controller, i.duplex = voice[v].duplex,
         voice' = [voice EXCEPT ![v] = i], Stays(voice[v], i) \/ Later(voice[v], i)
  PROVE  TurnsOn /\ ExpectsNoMore
<1>1. ASSUME NEW o \in Voices
      PROVE  /\ voice'[o].duplex = voice[o].duplex /\ Advances(voice[o], voice'[o])
             /\ voice'[o].pending => (voice[o].pending /\ voice'[o].generation = voice[o].generation)
  <2>1. CASE o = v
    <3>1. voice'[o] = i
      BY <2>1 DEF VoiceTypeOK
    <3> QED BY <2>1, <3>1 DEF Advances, Stays, Later
  <2>2. CASE o # v
    <3>1. voice'[o] = voice[o]
      BY <2>2 DEF VoiceTypeOK
    <3> QED BY <3>1 DEF Advances
  <2> QED BY <2>1, <2>2
<1> QED BY <1>1 DEF TurnsOn, ExpectsNoMore

(* A call that leads from the world of a controller to u.                  *)
LEMMA CallSound ==
  ASSUME VoiceTypeOK, OwnsAll, NEW v \in Voices, NEW u, Leads(World(v), u), Becomes(u)
  PROVE  ThreadsSound /\ ExpectsNoMore /\ TakesNoDevice
<1>1. /\ World(v) \in Worlds /\ World(v).me = v /\ World(v).its = voice[v]
      /\ World(v).lease = microphone /\ World(v).threads = workers
  BY WorldOf
<1>2. /\ u \in Worlds /\ u.me = v /\ u.its.duplex = voice[v].duplex
      /\ OwnOK(v, u.its, u.lease, u.threads)
      /\ workers \subseteq u.threads
      /\ u.lease = microphone \/ {u.lease, microphone} \subseteq {Nobody, v}
      /\ Stays(voice[v], u.its) \/ Later(voice[v], u.its)
  BY <1>1 DEF Leads
<1>3. \A t \in u.threads \ workers :
        t.of = v /\ t.pc = "lock" /\ (t.kind = "capture" => t.number > voice[v].generation)
  BY <1>1 DEF Leads, Added
<1>4. u.its \in Controller /\ u.lease \in Voices \cup {Nobody} /\ u.threads \subseteq Worker
  BY <1>2, WorldFields
<1>5. voice' = [voice EXCEPT ![v] = u.its] /\ microphone' = u.lease /\ workers' = u.threads
  BY <1>2 DEF Becomes
<1>6. \A o \in Voices \ {v} : Captures(workers', o) = Captures(workers, o)
  BY <1>2, <1>3, <1>5 DEF Captures
<1>7. OwnsAll'
  BY <1>2, <1>4, <1>5, <1>6, OwnKeeps
<1>8. TurnsOn /\ ExpectsNoMore
  BY <1>2, <1>4, <1>5, StaysOrLater
<1>9. Descends /\ TakesNoDevice
  BY <1>3, <1>5 DEF Descends, TakesNoDevice
<1>10. voice' \in [Voices -> Controller]
  BY <1>4, <1>5 DEF VoiceTypeOK
<1> QED BY <1>4, <1>5, <1>7, <1>8, <1>9, <1>10 DEF ThreadsSound

(* A thread that goes on to another place, and one that is gone.           *)
LEMMA WorkerMoves ==
  ASSUME NEW t \in Worker, NEW p,
         IF t.kind = "capture"
           THEN p \in {"lock", "begin", "recording", "audio", "silence", "broken", "leaving"}
           ELSE p \in {"lock", "begin", "speaking", "ended", "broken"}
  PROVE  LET s == [t EXCEPT !.pc = p] IN
           /\ s \in Worker /\ s.of = t.of /\ s.kind = t.kind /\ s.number = t.number /\ s.pc = p
           /\ t.kind = "capture" => s.origin = t.origin
           /\ t.of \in Voices /\ t.number \in Nat /\ (t.kind = "capture" => t.origin \in Conversations)
<1>1. CASE t.kind = "capture"
  BY <1>1 DEF Worker
<1>2. CASE t.kind # "capture"
  BY <1>2 DEF Worker
<1> QED BY <1>1, <1>2

LEMMA OwnReplaced ==
  ASSUME NEW v, NEW its, NEW lease, NEW T, NEW t \in T, NEW s,
         s.of = t.of, s.kind = t.kind, s.number = t.number,
         t.kind = "capture" => s.origin = t.origin,
         OwnOK(v, its, lease, T)
  PROVE  OwnOK(v, its, lease, (T \ {t}) \cup {s})
<1> DEFINE N == (T \ {t}) \cup {s}
<1>1. CASE t \notin Captures(T, v)
  <2>1. Captures(N, v) = Captures(T, v)
    BY <1>1 DEF Captures
  <2> HIDE DEF N
  <2>2. OwnOK(v, its, lease, N)
    BY <2>1 DEF OwnOK
  <2> QED BY <2>2 DEF N
<1>2. CASE t \in Captures(T, v)
  <2>1. Captures(N, v) = (Captures(T, v) \ {t}) \cup {s} /\ t.kind = "capture"
    BY <1>2 DEF Captures
  <2> HIDE DEF N
  <2>2. OwnOK(v, its, lease, N)
    BY <1>2, <2>1 DEF OwnOK
  <2> QED BY <2>2 DEF N
<1> QED BY <1>1, <1>2

LEMMA OwnRemoved ==
  ASSUME NEW v, NEW its, NEW lease, NEW T, NEW t,
         OwnOK(v, its, lease, T), t \notin Captures(T, v) \/ t.number # its.generation
  PROVE  OwnOK(v, its, lease, T \ {t})
<1>1. Captures(T \ {t}, v) = Captures(T, v) \ {t}
  BY DEF Captures
<1> QED BY <1>1 DEF OwnOK

LEMMA ThreadCallSound ==
  ASSUME VoiceTypeOK, OwnsAll, NEW t \in workers, NEW u, u \in Worlds, NEW pc,
         u.its.duplex = voice[t.of].duplex,
         u.lease = microphone \/ {u.lease, microphone} \subseteq {Nobody, t.of},
         Stays(voice[t.of], u.its) \/ Later(voice[t.of], u.its),
         ThreadCall(t, u, pc),
         IF pc = "gone" THEN OwnOK(t.of, u.its, u.lease, workers \ {t})
         ELSE /\ OwnOK(t.of, u.its, u.lease, workers)
              /\ IF t.kind = "capture"
                   THEN pc \in {"audio", "silence", "broken", "leaving"} /\ t.pc # "leaving"
                   ELSE pc \in {"ended", "broken"} \/ pc = t.pc
  PROVE  ThreadsSound /\ ExpectsNoMore /\ TakesNoDevice
<1> DEFINE v == t.of
<1> DEFINE s == [t EXCEPT !.pc = pc]
<1>1. t \in Worker /\ v \in Voices
  <2>1. t \in Worker
    BY DEF VoiceTypeOK
  <2> QED BY <2>1 DEF Worker
<1>2. u.its \in Controller /\ u.lease \in Voices \cup {Nobody}
  BY WorldFields
<1>3. voice' = [voice EXCEPT ![v] = u.its] /\ microphone' = u.lease
      /\ workers' = IF pc = "gone" THEN workers \ {t} ELSE (workers \ {t}) \cup {s}
  BY DEF ThreadCall, Threads
<1>4. TurnsOn /\ ExpectsNoMore
  BY <1>1, <1>2, <1>3, StaysOrLater
<1>5. voice' \in [Voices -> Controller]
  BY <1>2, <1>3 DEF VoiceTypeOK
<1>6. CASE pc = "gone"
  <2>1. workers' = workers \ {t}
    BY <1>3, <1>6
  <2>2. \A o \in Voices \ {v} : Captures(workers', o) = Captures(workers, o)
    BY <2>1 DEF Captures
  <2>3. OwnOK(v, u.its, u.lease, workers')
    BY <1>6, <2>1
  <2>4. OwnsAll'
    BY <1>1, <1>2, <1>3, <2>2, <2>3, OwnKeeps
  <2>5. Descends /\ TakesNoDevice
    BY <2>1 DEF Descends, TakesNoDevice
  <2> QED BY <1>2, <1>3, <1>4, <1>5, <2>1, <2>4, <2>5 DEF ThreadsSound, VoiceTypeOK
<1>7. CASE pc # "gone"
  <2>1. workers' = (workers \ {t}) \cup {s}
    BY <1>3, <1>7
  <2>2. /\ s \in Worker /\ s.of = t.of /\ s.kind = t.kind /\ s.number = t.number /\ s.pc = pc
        /\ t.kind = "capture" => s.origin = t.origin
    <3>1. IF t.kind = "capture"
            THEN pc \in {"lock", "begin", "recording", "audio", "silence", "broken", "leaving"}
            ELSE pc \in {"lock", "begin", "speaking", "ended", "broken"}
      <4>1. t.kind # "capture" => t.pc \in {"lock", "begin", "speaking", "ended", "broken"}
        BY <1>1 DEF Worker
      <4> QED BY <1>7, <4>1
    <3> QED BY <1>1, <3>1, WorkerMoves
  <2> HIDE DEF s
  <2>3. \A o \in Voices \ {v} : Captures(workers', o) = Captures(workers, o)
    BY <2>1, <2>2 DEF Captures
  <2>4. OwnOK(v, u.its, u.lease, workers')
    BY <1>7, <2>1, <2>2, OwnReplaced
  <2>5. OwnsAll'
    BY <1>1, <1>2, <1>3, <2>3, <2>4, OwnKeeps
  <2>6. workers' \subseteq Worker
    BY <2>1, <2>2 DEF VoiceTypeOK
  <2>7. Descends /\ TakesNoDevice
    <3>1. (t.pc = "leaving" => s.pc = "leaving") /\ (s.pc \in {"recording", "speaking"} => t.pc = s.pc)
      BY <1>7, <2>2, <1>1 DEF Worker
    <3> QED BY <2>1, <2>2, <3>1 DEF Descends, TakesNoDevice
  <2> QED BY <1>2, <1>3, <1>4, <1>5, <2>5, <2>6, <2>7 DEF ThreadsSound
<1> QED BY <1>6, <1>7

(* The threads alone: nothing else changes.                                *)
LEMMA RestSound ==
  ASSUME VoiceTypeOK, OwnsAll, UNCHANGED <<voice, microphone, workers>>
  PROVE  ThreadsSound /\ ExpectsNoMore /\ TakesNoDevice
<1>1. TurnsOn /\ ExpectsNoMore
  BY DEF TurnsOn, ExpectsNoMore, Advances
<1>2. Descends /\ TakesNoDevice
  BY DEF Descends, TakesNoDevice
<1>3. OwnsAll'
  BY DEF OwnsAll
<1> QED BY <1>1, <1>2, <1>3 DEF ThreadsSound, VoiceTypeOK

LEMMA ThreadGoneSound ==
  ASSUME VoiceTypeOK, OwnsAll, NEW t \in workers, UNCHANGED <<voice, microphone>>,
         workers' = workers \ {t}, ~Live(t)
  PROVE  ThreadsSound /\ ExpectsNoMore /\ TakesNoDevice
<1>1. TurnsOn /\ ExpectsNoMore
  BY DEF TurnsOn, ExpectsNoMore, Advances
<1>2. ASSUME NEW o \in Voices PROVE OwnOK(o, voice[o], microphone, workers')
  <2>1. t \notin Captures(workers, o) \/ t.number # voice[o].generation
    BY DEF Captures, Live
  <2> QED BY <2>1, OwnRemoved DEF OwnsAll
<1>3. Descends /\ TakesNoDevice
  BY DEF Descends, TakesNoDevice
<1> QED BY <1>1, <1>2, <1>3 DEF ThreadsSound, OwnsAll, VoiceTypeOK

LEMMA ThreadMoveSound ==
  ASSUME VoiceTypeOK, OwnsAll, NEW t \in workers, UNCHANGED <<voice, microphone>>,
         NEW p, Threads(t, p), t.pc # "leaving",
         IF t.kind = "capture" THEN p \in {"begin", "recording", "audio", "silence", "broken"}
                               ELSE p \in {"begin", "speaking", "broken"}
  PROVE  /\ ThreadsSound /\ ExpectsNoMore
         /\ p \notin {"recording", "speaking"} => TakesNoDevice
<1> DEFINE s == [t EXCEPT !.pc = p]
<1>1. t \in Worker
  BY DEF VoiceTypeOK
<1>2. TurnsOn /\ ExpectsNoMore
  BY DEF TurnsOn, ExpectsNoMore, Advances
<1>3. workers' = (workers \ {t}) \cup {s}
  BY DEF Threads
<1>4. /\ s \in Worker /\ s.of = t.of /\ s.kind = t.kind /\ s.number = t.number /\ s.pc = p
      /\ t.kind = "capture" => s.origin = t.origin
  BY <1>1, WorkerMoves
<1> HIDE DEF s
<1>5. ASSUME NEW o \in Voices PROVE OwnOK(o, voice[o], microphone, workers')
  BY <1>3, <1>4, OwnReplaced DEF OwnsAll
<1>6. Descends /\ (p \notin {"recording", "speaking"} => TakesNoDevice)
  BY <1>3, <1>4 DEF Descends, TakesNoDevice
<1> QED BY <1>2, <1>3, <1>4, <1>5, <1>6 DEF ThreadsSound, OwnsAll, VoiceTypeOK

-----------------------------------------------------------------------------
(* Voice: the devices and the texts, given what a step does to controllers *)
(* and threads.                                                            *)

TranscriptType == [of : Voices, generation : Nat, origin : Conversations, pc : {"sent", "text"}]
PostType == [of : Voices, generation : Nat, session : Conversations,
             origin : Conversations, what : {"text", "resume"}]

LEMMA TranscriptFields ==
  ASSUME VoiceTypeOK, NEW x \in transcripts
  PROVE  x \in TranscriptType /\ x.of \in Voices /\ x.generation \in Nat /\ x.pc \in {"sent", "text"}
BY DEF VoiceTypeOK, TranscriptType

LEMMA PostFields ==
  ASSUME VoiceTypeOK, NEW p \in posts
  PROVE  p \in PostType /\ p.of \in Voices /\ p.generation \in Nat
BY DEF VoiceTypeOK, PostType

LEMMA DevicesStay ==
  ASSUME VoiceTypeOK, DevicesShared, TakesNoDevice, TurnsOn
  PROVE  DevicesShared'
<1> SUFFICES ASSUME NEW t \in workers', t.pc = "recording", NEW u \in workers', u.pc = "speaking"
             PROVE  voice'[t.of].duplex /\ voice'[u.of].duplex
  BY DEF DevicesShared, Active
<1>1. PICK o \in workers : o.of = t.of /\ o.pc = "recording"
  BY DEF TakesNoDevice
<1>2. PICK s \in workers : s.of = u.of /\ s.pc = "speaking"
  BY DEF TakesNoDevice
<1>3. voice[t.of].duplex /\ voice[u.of].duplex
  BY <1>1, <1>2 DEF DevicesShared, Active
<1>4. t.of \in Voices /\ u.of \in Voices
  BY <1>1, <1>2 DEF VoiceTypeOK, Worker
<1> QED BY <1>3, <1>4 DEF TurnsOn

LEMMA NotBack ==
  ASSUME VoiceTypeOK, TurnsOn, voice' \in [Voices -> Controller],
         NEW v \in Voices, NEW g \in Nat, g <= voice[v].generation
  PROVE  /\ g <= voice'[v].generation
         /\ g = voice'[v].generation =>
              /\ g = voice[v].generation /\ voice'[v].generation = voice[v].generation
              /\ voice'[v].session = voice[v].session
              /\ voice[v].state = "transcribing" => voice'[v].state = "transcribing"
<1>1. voice[v].generation \in Nat
  BY VoiceFields
<1>2. voice'[v].generation \in Nat
  <2>1. voice'[v] \in Controller
    OBVIOUS
  <2> QED BY <2>1, ControllerFields
<1>3. Advances(voice[v], voice'[v])
  BY DEF TurnsOn
<1> QED BY <1>1, <1>2, <1>3 DEF Advances

LEMMA OldTranscripts ==
  ASSUME VoiceTypeOK, TextsOK, ThreadsSound, NEW x \in transcripts
  PROVE  TranscriptOK(x)'
<1>1. x.of \in Voices /\ x.generation \in Nat
  BY TranscriptFields
<1>2. TranscriptOK(x)
  BY DEF TextsOK
<1> QED BY <1>1, <1>2, NotBack DEF TranscriptOK, Current, ThreadsSound

LEMMA OldPosts ==
  ASSUME VoiceTypeOK, TextsOK, ThreadsSound, NEW p \in posts
  PROVE  PostOK(p)'
<1>1. p.of \in Voices /\ p.generation \in Nat
  BY PostFields
<1>2. PostOK(p)
  BY DEF TextsOK
<1> QED BY <1>1, <1>2, NotBack DEF PostOK, Current, ThreadsSound

LEMMA OldCaptures ==
  ASSUME VoiceTypeOK, TextsOK, ThreadsSound, NEW t \in workers',
         NEW x \in transcripts \cup Texts, CapturedIn(t, x)
  PROVE  t.pc = "leaving"
<1>1. /\ x.generation \in Nat /\ x.of \in Voices /\ x.generation <= voice[x.of].generation
      /\ voice[x.of].generation \in Nat
  <2>1. CASE x \in transcripts
    BY <2>1, TranscriptFields, VoiceFields DEF TextsOK, TranscriptOK
  <2>2. CASE x \in Texts
    BY <2>2, PostFields, VoiceFields DEF TextsOK, PostOK, Texts
  <2> QED BY <2>1, <2>2
<1>2. ~(t.pc = "lock" /\ t.number > voice[t.of].generation)
  BY <1>1 DEF CapturedIn
<1>3. PICK o \in workers : /\ o.of = t.of /\ o.kind = t.kind /\ o.number = t.number
                           /\ o.pc = "leaving" => t.pc = "leaving"
  BY <1>2 DEF ThreadsSound, Descends, CapturedIn
<1>4. CapturedIn(o, x)
  BY <1>3 DEF CapturedIn
<1> QED BY <1>3, <1>4 DEF TextsOK, OnePlace

LEMMA StillComing ==
  ASSUME VoiceTypeOK, TextsOK, ThreadsSound, NEW v \in Voices,
         voice[v].pending, voice'[v].generation = voice[v].generation,
         \A p \in Texts : p.of = v /\ Current(p) => p \in posts',
         \A x \in transcripts : x.of = v /\ x.pc = "text" /\ Current(x) => x \in transcripts'
  PROVE  Coming(v)'
<1>1. Coming(v)
  BY DEF TextsOK
<1> QED BY <1>1 DEF Coming, Current, Texts

(* A step that files nothing new but a call for the screen.                *)
LEMMA FilesStay ==
  ASSUME VoiceTypeOK, TextsOK, ThreadsSound, transcripts' \subseteq transcripts,
         \A p \in posts' \ posts : p.what = "resume" /\ PostOK(p)'
  PROVE  (\A x \in transcripts' : TranscriptOK(x)') /\ (\A p \in posts' : PostOK(p)') /\ OnePlace'
<1>1. \A x \in transcripts' : TranscriptOK(x)'
  BY OldTranscripts
<1>2. \A p \in posts' : PostOK(p)'
  BY OldPosts
<1>3. Texts' \subseteq Texts
  BY DEF Texts
<1>4. OnePlace'
  <2>1. \A t \in workers' : \A x \in transcripts' : CapturedIn(t, x) => t.pc = "leaving"
    BY OldCaptures
  <2>2. \A t \in workers' : \A p \in Texts' : CapturedIn(t, p) => t.pc = "leaving"
    BY <1>3, OldCaptures
  <2>3. /\ \A x, y \in transcripts' : SameTurn(x, y) => x = y
        /\ \A x \in transcripts' : \A p \in Texts' : ~SameTurn(x, p)
    BY <1>3 DEF TextsOK, OnePlace
  <2> QED BY <2>1, <2>2, <2>3 DEF OnePlace, CapturedIn, SameTurn
<1> QED BY <1>1, <1>2, <1>4

LEMMA TextsStay ==
  ASSUME VoiceTypeOK, TextsOK, ThreadsSound, ExpectsNoMore, transcripts' \subseteq transcripts,
         \A x \in transcripts \ transcripts' : ~(x.pc = "text" /\ Current(x)),
         \A p \in posts \ posts' : ~(p.what = "text" /\ Current(p)),
         \A p \in posts' \ posts : p.what = "resume" /\ PostOK(p)'
  PROVE  TextsOK'
<1>1. ASSUME NEW v \in Voices, voice'[v].pending PROVE Coming(v)'
  <2>1. voice[v].pending /\ voice'[v].generation = voice[v].generation
    BY <1>1 DEF ExpectsNoMore
  <2>2. \A p \in Texts : p.of = v /\ Current(p) => p \in posts'
    BY DEF Texts
  <2> QED BY <2>1, <2>2, StillComing
<1> QED BY <1>1, FilesStay DEF TextsOK

LEMMA SoundStep ==
  ASSUME VoiceInv, ThreadsSound, TakesNoDevice, TextsOK',
         transcripts' \subseteq TranscriptType, posts' \subseteq PostType
  PROVE  VoiceInv'
<1>1. VoiceTypeOK'
  BY DEF ThreadsSound, VoiceTypeOK, TranscriptType, PostType
<1>2. DevicesShared'
  BY DevicesStay DEF VoiceInv, ThreadsSound
<1> QED BY <1>1, <1>2 DEF VoiceInv, ThreadsSound

LEMMA CallKeeps ==
  ASSUME VoiceInv, NEW v \in Voices, NEW u, Leads(World(v), u), Becomes(u),
         transcripts' = transcripts, posts' = posts
  PROVE  VoiceInv'
<1>1. ThreadsSound /\ ExpectsNoMore /\ TakesNoDevice
  BY CallSound DEF VoiceInv
<1>2. TextsOK'
  BY <1>1, TextsStay DEF VoiceInv
<1>3. transcripts' \subseteq TranscriptType /\ posts' \subseteq PostType
  BY DEF VoiceInv, VoiceTypeOK, TranscriptType, PostType
<1> QED BY <1>1, <1>2, <1>3, SoundStep

-----------------------------------------------------------------------------
(* Voice: the calls of the screen.                                         *)

LEMMA BindLeads ==
  ASSUME NEW w \in Worlds, Leads(w, w), NEW s \in Conversations
  PROVE  Leads(w, [Cancels(w) EXCEPT !.its.busy = FALSE, !.its.session = s])
<1> DEFINE c == Cancels(w)
<1> DEFINE b == [c EXCEPT !.its.busy = FALSE]
<1> DEFINE i == [b.its EXCEPT !.session = s]
<1> DEFINE x == [b EXCEPT !.its = i]
<1>1. Leads(w, c) /\ Later(w.its, c.its) /\ c.lease # w.me
  BY CancelsLeads
<1>2. [c EXCEPT !.its.busy = FALSE, !.its.session = s] = x
  OBVIOUS
<1>3. c \in Worlds
  BY <1>1 DEF Leads
<1>9. c = Cancels(w)
  BY DEF c
<1> HIDE DEF c
<1>4. Flags(c, b)
  BY <1>3, FlagsWorld
<1> HIDE DEF b
<1>5. Leads(w, b) /\ Later(w.its, b.its) /\ b.lease # w.me
  BY <1>1, <1>4, FlagsLeads DEF Flags, Edited
<1>6. b \in Worlds /\ b.its \in Controller /\ b.me = w.me
  BY <1>5, WorldFields DEF Leads
<1>7. /\ i \in Controller /\ i.generation = b.its.generation /\ i.pending = b.its.pending
      /\ i.duplex = b.its.duplex
  BY <1>6 DEF Controller
<1> HIDE DEF i
<1>8. x \in Worlds /\ x.its = i /\ x.me = b.me /\ x.lease = b.lease /\ x.threads = b.threads
  BY <1>6, <1>7, ItsWorld
<1> HIDE DEF x
<1>10. OwnOK(x.me, x.its, x.lease, x.threads)
  BY <1>5, <1>6, <1>7, <1>8 DEF Leads, OwnOK
<1>11. Leads(w, x)
  BY <1>5, <1>7, <1>8, <1>10 DEF Leads, Later
<1> QED BY <1>2, <1>9, <1>11

LEMMA ClosesLeads ==
  ASSUME NEW w \in Worlds, Leads(w, w)
  PROVE  Leads(w, [Invalidated(w) EXCEPT !.its.conversation = FALSE, !.its.paused = FALSE,
                                         !.its.state = "disabled", !.its.closed = TRUE])
<1> DEFINE u == Invalidated(w)
<1> DEFINE c == [u EXCEPT !.its.conversation = FALSE]
<1> DEFINE p == [c EXCEPT !.its.paused = FALSE]
<1> DEFINE i == [p.its EXCEPT !.state = "disabled"]
<1> DEFINE j == [i EXCEPT !.closed = TRUE]
<1> DEFINE x == [p EXCEPT !.its = j]
<1>1. Leads(w, u) /\ Later(w.its, u.its)
  BY InvalidatedLeads
<1>2. [u EXCEPT !.its.conversation = FALSE, !.its.paused = FALSE,
                !.its.state = "disabled", !.its.closed = TRUE] = x
  OBVIOUS
<1>3. u = Invalidated(w)
  BY DEF u
<1> HIDE DEF u
<1>4. Flags(u, c)
  BY <1>1, FlagsWorld DEF Leads
<1> HIDE DEF c
<1>5. Flags(c, p)
  BY <1>4, FlagsWorld DEF Flags, Edited
<1> HIDE DEF p
<1>6. Leads(w, p) /\ Later(w.its, p.its)
  BY <1>1, <1>4, <1>5, FlagsTwice, FlagsLeads
<1>7. p \in Worlds /\ p.its \in Controller
  BY <1>6, WorldFields DEF Leads
<1>8. /\ i \in Controller /\ i.generation = p.its.generation /\ i.pending = p.its.pending
      /\ i.duplex = p.its.duplex /\ i.session = p.its.session
  BY <1>7 DEF Controller, VoiceStates, Universal
<1> HIDE DEF i
<1>9. /\ j \in Controller /\ j.generation = p.its.generation /\ j.pending = p.its.pending
      /\ j.duplex = p.its.duplex /\ j.session = p.its.session
  BY <1>8 DEF Controller
<1> HIDE DEF j
<1>10. Edited(p, x)
  BY <1>7, <1>9, ItsWorld DEF Edited
<1> HIDE DEF x
<1>11. Leads(w, x)
  BY <1>6, <1>10, EditLeads
<1> QED BY <1>2, <1>3, <1>11

LEMMA ConversationLeads ==
  ASSUME NEW w \in Worlds, Leads(w, w), NEW threads
  PROVE  LET c == [w EXCEPT !.its.conversation = TRUE, !.its.paused = FALSE]
             begun == BeginsCapture(c, "conversation", FALSE, FALSE)
         IN Leads(w, IF begun.threads # threads THEN begun
                     ELSE [begun EXCEPT !.its.conversation = FALSE])
<1> DEFINE c == [w EXCEPT !.its.conversation = TRUE, !.its.paused = FALSE]
<1> DEFINE a == [w EXCEPT !.its.conversation = TRUE]
<1> DEFINE p == [a EXCEPT !.its.paused = FALSE]
<1> DEFINE begun == BeginsCapture(c, "conversation", FALSE, FALSE)
<1>1. c = p
  OBVIOUS
<1>2. Flags(w, a)
  BY FlagsWorld
<1> HIDE DEF a
<1>3. Flags(a, p)
  BY <1>2, FlagsWorld DEF Flags, Edited
<1>4. Leads(w, c)
  BY <1>1, <1>2, <1>3, FlagsLeads
<1> HIDE DEF c
<1>5. Leads(w, begun)
  BY <1>4, BeginsCaptureLeads
<1> HIDE DEF begun
<1>6. Leads(w, [begun EXCEPT !.its.conversation = FALSE])
  BY <1>5, FlagLeads
<1> QED BY <1>5, <1>6 DEF begun, c

LEMMA ResumingLeads ==
  ASSUME NEW w \in Worlds, Leads(w, w), NEW threads
  PROVE  LET p == [w EXCEPT !.its.paused = FALSE]
             begun == BeginsCapture(p, "conversation", FALSE, FALSE)
         IN Leads(w, IF p.its.busy THEN Enters(p, "thinking")
                     ELSE IF begun.threads # threads THEN begun
                     ELSE [begun EXCEPT !.its.paused = TRUE])
<1> DEFINE p == [w EXCEPT !.its.paused = FALSE]
<1> DEFINE begun == BeginsCapture(p, "conversation", FALSE, FALSE)
<1>1. Leads(w, p)
  BY FlagLeads
<1> HIDE DEF p
<1>2. Leads(w, Enters(p, "thinking"))
  BY <1>1, EntersLeads DEF VoiceStates, Universal
<1>3. Leads(w, begun)
  BY <1>1, BeginsCaptureLeads
<1> HIDE DEF begun
<1>4. Leads(w, [begun EXCEPT !.its.paused = TRUE])
  BY <1>3, FlagLeads
<1> QED BY <1>2, <1>3, <1>4 DEF begun, p

LEMMA ResolvedLeads ==
  ASSUME NEW w \in Worlds, Leads(w, w)
  PROVE  LET r == [w EXCEPT !.its.review = FALSE]
         IN /\ Leads(w, Enters([r EXCEPT !.its.busy = TRUE], "thinking"))
            /\ Leads(w, ResumesIfNeeded(Enters(r, "ready")))
<1> DEFINE r == [w EXCEPT !.its.review = FALSE]
<1>1. Leads(w, r)
  BY FlagLeads
<1> HIDE DEF r
<1> DEFINE b == [r EXCEPT !.its.busy = TRUE]
<1>2. Leads(w, b)
  BY <1>1, FlagLeads
<1> HIDE DEF b
<1>3. Leads(w, Enters(b, "thinking")) /\ Leads(w, Enters(r, "ready"))
  BY <1>1, <1>2, EntersLeads DEF VoiceStates, Universal
<1>4. Leads(w, ResumesIfNeeded(Enters(r, "ready")))
  BY <1>3, ResumesLeads
<1> QED BY <1>3, <1>4 DEF b, r

LEMMA CompletedLeads ==
  ASSUME NEW w \in Worlds, Leads(w, w)
  PROVE  LET f == [w EXCEPT !.its.busy = FALSE]
         IN /\ Leads(w, f) /\ Leads(w, Speaks(Enters(f, "ready")))
            /\ Leads(w, ResumesIfNeeded(Enters(f, "ready")))
<1> DEFINE f == [w EXCEPT !.its.busy = FALSE]
<1>1. Leads(w, f)
  BY FlagLeads
<1> HIDE DEF f
<1>2. Leads(w, Enters(f, "ready"))
  BY <1>1, EntersLeads DEF VoiceStates, Universal
<1> QED BY <1>1, <1>2, SpeaksLeads, ResumesLeads DEF f

LEMMA SyncLeads ==
  ASSUME NEW w \in Worlds, Leads(w, w), NEW busy \in BOOLEAN,
         NEW shown \in {"thinking", "interrupted", "idle"}
  PROVE  LET b == [w EXCEPT !.its.busy = busy]
         IN Leads(w, IF b.its.state \in Engaged \cup {"speaking"} THEN b ELSE Enters(b, shown))
<1> DEFINE b == [w EXCEPT !.its.busy = busy]
<1>1. Leads(w, b)
  BY FlagLeads
<1> HIDE DEF b
<1>2. b.its.state \notin Engaged => Leads(w, Enters(b, shown))
  BY <1>1, EntersLeads DEF VoiceStates, Universal, Engaged
<1> QED BY <1>1, <1>2 DEF b

LEMMA ScreenKeeps ==
  ASSUME VoiceInv, NEW v \in Voices, ScreenCalls(v), ~ReviewText(v)
  PROVE  VoiceInv'
<1> DEFINE w == World(v)
<1>1. w \in Worlds /\ Leads(w, w) /\ w.threads = workers
  BY WorldOf DEF VoiceInv
<1>2. ASSUME NEW u, Leads(w, u), Call(v, u) PROVE VoiceInv'
  BY <1>2, CallKeeps DEF Call
<1>w. w = World(v)
  BY DEF w
<1> HIDE DEF w
<1>3. ASSUME NEW s \in Conversations, BindSession(v, s) PROVE VoiceInv'
  BY <1>1, <1>2, <1>3, <1>w, BindLeads DEF BindSession
<1>4. ASSUME NEW busy \in BOOLEAN, SyncAgentState(v, busy) PROVE VoiceInv'
  <2> DEFINE shown == IF busy THEN "thinking"
                      ELSE IF w.its.conversation /\ w.its.paused THEN "interrupted" ELSE "idle"
  <2> DEFINE b == [w EXCEPT !.its.busy = busy]
  <2>1. b.its.conversation = w.its.conversation /\ b.its.paused = w.its.paused
    BY <1>1 DEF Worlds, Controller
  <2>2. Call(v, IF b.its.state \in Engaged \cup {"speaking"} THEN b ELSE Enters(b, shown))
    BY <1>4, <1>w, <2>1 DEF SyncAgentState
  <2>3. shown \in {"thinking", "interrupted", "idle"}
    OBVIOUS
  <2> HIDE DEF shown
  <2>4. Leads(w, IF b.its.state \in Engaged \cup {"speaking"} THEN b ELSE Enters(b, shown))
    BY <1>1, <2>3, SyncLeads
  <2> HIDE DEF b
  <2> QED BY <1>2, <2>2, <2>4
<1>5. ASSUME NEW submitted \in BOOLEAN, TranscriptResolved(v, submitted) PROVE VoiceInv'
  <2> DEFINE r == [w EXCEPT !.its.review = FALSE]
  <2>1. Call(v, IF submitted THEN Enters([r EXCEPT !.its.busy = TRUE], "thinking")
                ELSE ResumesIfNeeded(Enters(r, "ready")))
    BY <1>5, <1>w DEF TranscriptResolved
  <2>2. /\ Leads(w, Enters([r EXCEPT !.its.busy = TRUE], "thinking"))
        /\ Leads(w, ResumesIfNeeded(Enters(r, "ready")))
    BY <1>1, ResolvedLeads
  <2> HIDE DEF r
  <2> QED BY <1>2, <2>1, <2>2
<1>6. ASSUME NEW spoken \in BOOLEAN, ResponseCompleted(v, spoken) PROVE VoiceInv'
  <2> DEFINE f == [w EXCEPT !.its.busy = FALSE]
  <2> DEFINE e == Enters(f, "ready")
  <2>1. Call(v, IF f.its.speech \/ f.its.state \in Engaged THEN f
                ELSE IF spoken /\ MaySpeak(e) THEN Speaks(e) ELSE ResumesIfNeeded(e))
    BY <1>6, <1>w DEF ResponseCompleted
  <2>2. Leads(w, f) /\ Leads(w, Speaks(e)) /\ Leads(w, ResumesIfNeeded(e))
    BY <1>1, CompletedLeads
  <2> HIDE DEF f, e
  <2> QED BY <1>2, <2>1, <2>2
<1>7. CASE StartRecording(v) \/ RetryTranscription(v)
  BY <1>1, <1>2, <1>7, <1>w, BeginsCaptureLeads DEF StartRecording, RetryTranscription
<1>8. CASE StartConversation(v)
  <2> DEFINE c == [w EXCEPT !.its.conversation = TRUE, !.its.paused = FALSE]
  <2> DEFINE begun == BeginsCapture(c, "conversation", FALSE, FALSE)
  <2> DEFINE x == IF begun.threads # workers THEN begun
                  ELSE [begun EXCEPT !.its.conversation = FALSE]
  <2>1. Call(v, x)
    BY <1>8, <1>w DEF StartConversation
  <2>2. Leads(w, x)
    BY <1>1, ConversationLeads
  <2> HIDE DEF x
  <2> QED BY <1>2, <2>1, <2>2
<1>9. CASE ResumeConversation(v)
  <2> DEFINE p == [w EXCEPT !.its.paused = FALSE]
  <2> DEFINE begun == BeginsCapture(p, "conversation", FALSE, FALSE)
  <2> DEFINE x == IF p.its.busy THEN Enters(p, "thinking")
                  ELSE IF begun.threads # workers THEN begun
                  ELSE [begun EXCEPT !.its.paused = TRUE]
  <2>1. Call(v, x)
    BY <1>9, <1>w DEF ResumeConversation
  <2>2. Leads(w, x)
    BY <1>1, ResumingLeads
  <2> HIDE DEF x
  <2> QED BY <1>2, <2>1, <2>2
<1>10. CASE PauseConversation(v)
  BY <1>1, <1>2, <1>10, <1>w, PausesLeads DEF PauseConversation
<1>11. CASE StopListening(v)
  <2> DEFINE i == InputInvalidated(w)
  <2>1. Leads(w, i) /\ Later(w.its, i.its)
    BY <1>1, LeadsNearly, InputInvalidatedLeads
  <2>2. Call(v, Enters(i, "idle"))
    BY <1>11, <1>w DEF StopListening
  <2> HIDE DEF i
  <2>3. Leads(w, Enters(i, "idle"))
    BY <2>1, EntersLeads DEF VoiceStates, Universal
  <2> QED BY <1>2, <2>2, <2>3
<1>12. CASE CancelVoice(v)
  BY <1>1, <1>2, <1>12, <1>w, CancelsLeads DEF CancelVoice
<1>13. CASE ResponseStarted(v) \/ MarkAgentState(v)
  <2>1. Leads(w, Thinks(StopsSpeaking(w))) /\ Leads(w, Thinks(w))
    BY <1>1, StopsSpeakingLeads, ThinksLeads
  <2> QED BY <1>2, <1>13, <1>w, <2>1 DEF ResponseStarted, MarkAgentState
<1>14. CASE SpeakText(v) \/ StopSpeaking(v)
  BY <1>1, <1>2, <1>14, <1>w, SpeaksLeads, StopsSpeakingLeads DEF SpeakText, StopSpeaking
<1>15. CASE CloseVoice(v)
  BY <1>1, <1>2, <1>15, <1>w, ClosesLeads DEF CloseVoice
<1> QED BY <1>3, <1>4, <1>5, <1>6, <1>7, <1>8, <1>9, <1>10, <1>11, <1>12, <1>13, <1>14, <1>15
        DEF ScreenCalls

(* A text that was typed takes a generation of its own.                    *)
LEMMA ReviewKeeps ==
  ASSUME VoiceInv, NEW v \in Voices, ReviewText(v)
  PROVE  VoiceInv'
<1> DEFINE u == Invalidated(World(v))
<1> DEFINE i == [[[u.its EXCEPT !.pending = TRUE] EXCEPT !.review = TRUE] EXCEPT !.state = "review"]
<1> DEFINE x == [u EXCEPT !.its = i]
<1> DEFINE p == [of |-> v, generation |-> x.its.generation, what |-> "text",
                 session |-> voice[v].session, origin |-> voice[v].session]
<1>0. VoiceTypeOK /\ OwnsAll /\ TextsOK
  BY DEF VoiceInv
<1>1. /\ World(v) \in Worlds /\ World(v).me = v /\ World(v).its = voice[v]
      /\ World(v).lease = microphone /\ World(v).threads = workers /\ Leads(World(v), World(v))
  BY <1>0, WorldOf
<1>2. /\ Leads(World(v), u) /\ Later(World(v).its, u.its) /\ u.its.session = World(v).its.session
      /\ u.threads = World(v).threads
  BY <1>1, InvalidatedLeads
<1>3. [Invalidated(World(v)) EXCEPT !.its.pending = TRUE, !.its.review = TRUE, !.its.state = "review"] = x
  OBVIOUS
<1>4. Becomes(x) /\ posts' = posts \cup {p} /\ transcripts' = transcripts
  BY <1>3 DEF ReviewText
<1> HIDE DEF u
<1>5. /\ u \in Worlds /\ u.its \in Controller /\ u.me = v /\ u.its.duplex = voice[v].duplex
      /\ OwnOK(v, u.its, u.lease, workers) /\ u.threads = workers
      /\ u.lease = microphone \/ {u.lease, microphone} \subseteq {Nobody, v}
      /\ u.its.generation > voice[v].generation /\ u.its.session = voice[v].session
  BY <1>1, <1>2, WorldFields DEF Leads, Later
<1>6. /\ i \in Controller /\ i.generation = u.its.generation /\ i.session = u.its.session
      /\ i.duplex = u.its.duplex
  <2> DEFINE a == [u.its EXCEPT !.pending = TRUE]
  <2> DEFINE b == [a EXCEPT !.review = TRUE]
  <2>1. /\ a \in Controller /\ a.generation = u.its.generation /\ a.session = u.its.session
        /\ a.duplex = u.its.duplex
    BY <1>5 DEF Controller
  <2> HIDE DEF a
  <2>2. /\ b \in Controller /\ b.generation = u.its.generation /\ b.session = u.its.session
        /\ b.duplex = u.its.duplex
    BY <2>1 DEF Controller
  <2>3. i = [b EXCEPT !.state = "review"]
    BY DEF a, b, i
  <2> HIDE DEF b
  <2> QED BY <2>2, <2>3 DEF Controller, VoiceStates, Engaged
<1> HIDE DEF i
<1>7. x \in Worlds /\ x.its = i /\ x.me = v /\ x.lease = u.lease /\ x.threads = workers
  BY <1>5, <1>6, ItsWorld
<1>8. voice' = [voice EXCEPT ![v] = i] /\ microphone' = u.lease /\ workers' = workers
  BY <1>4, <1>7 DEF Becomes
<1>p. p.of = v /\ p.generation = i.generation /\ p.what = "text"
      /\ p.session = voice[v].session /\ p.origin = voice[v].session /\ p \in PostType
  BY <1>5, <1>6, <1>7, WorldFields, ControllerFields, <1>0, VoiceFields DEF PostType
<1> HIDE DEF x, p
<1>9. ThreadsSound /\ TakesNoDevice
  <2>1. OwnOK(v, i, u.lease, workers')
    BY <1>5, <1>6, <1>8 DEF OwnOK
  <2>2. u.lease \in Voices \cup {Nobody}
    BY <1>5, WorldFields
  <2>3. OwnsAll'
    BY <1>0, <1>5, <1>6, <1>8, <2>1, <2>2, OwnKeeps
  <2>4. TurnsOn
    <3> SUFFICES ASSUME NEW o \in Voices
                 PROVE  voice'[o].duplex = voice[o].duplex /\ Advances(voice[o], voice'[o])
      BY DEF TurnsOn
    <3>1. CASE o = v
      BY <1>0, <1>5, <1>6, <1>8, <3>1 DEF Advances, VoiceTypeOK
    <3>2. CASE o # v
      BY <1>0, <1>8, <3>2 DEF Advances, VoiceTypeOK
    <3> QED BY <3>1, <3>2
  <2>5. Descends /\ TakesNoDevice
    BY <1>8 DEF Descends, TakesNoDevice
  <2>6. voice' \in [Voices -> Controller] /\ workers' \subseteq Worker
    BY <1>0, <1>6, <1>8 DEF VoiceTypeOK
  <2> QED BY <1>8, <2>2, <2>3, <2>4, <2>5, <2>6 DEF ThreadsSound
<1>10. voice'[v] = i /\ \A o \in Voices \ {v} : voice'[o] = voice[o]
  BY <1>0, <1>8 DEF VoiceTypeOK
<1>11. TextsOK'
  <2>1. \A y \in transcripts' : TranscriptOK(y)'
    BY <1>0, <1>4, <1>9, OldTranscripts
  <2>2. \A q \in posts' : PostOK(q)'
    <3> SUFFICES ASSUME NEW q \in posts', q \notin posts PROVE PostOK(q)'
      BY <1>0, <1>9, OldPosts
    <3>1. q = p
      BY <1>4
    <3>2. i.generation \in Nat
      BY <1>6, ControllerFields
    <3> QED BY <1>5, <1>6, <1>p, <1>10, <3>1, <3>2 DEF PostOK, Current
  <2>3. Texts' = Texts \cup {p}
    BY <1>4, <1>p DEF Texts
  <2>4. voice[v].generation \in Nat /\ i.generation \in Nat /\ i.generation > voice[v].generation
    BY <1>0, <1>5, <1>6, VoiceFields, ControllerFields
  <2>5. \A t \in workers' : ~CapturedIn(t, p)
    <3> SUFFICES ASSUME NEW t \in workers, CapturedIn(t, p) PROVE FALSE
      BY <1>8
    <3>1. t \in Captures(workers, v) /\ t \in Captures(World(v).threads, World(v).me)
      BY <1>1, <1>p DEF CapturedIn, Captures
    <3>2. t.number <= voice[v].generation /\ t.number \in Nat
      BY <1>0, <1>1, <3>1, CaptureNumbers DEF OwnsAll, OwnOK
    <3> QED BY <1>p, <2>4, <3>2 DEF CapturedIn
  <2>6. \A y \in transcripts : ~SameTurn(y, p)
    <3> SUFFICES ASSUME NEW y \in transcripts, SameTurn(y, p) PROVE FALSE
      OBVIOUS
    <3>1. y.generation <= voice[v].generation /\ y.generation \in Nat
      BY <1>0, <1>p, TranscriptFields DEF TextsOK, TranscriptOK, SameTurn
    <3> QED BY <1>p, <2>4, <3>1 DEF SameTurn
  <2>7. OnePlace'
    <3>1. \A t \in workers' : \A y \in transcripts' : CapturedIn(t, y) => t.pc = "leaving"
      BY <1>0, <1>4, <1>9, OldCaptures
    <3>2. \A t \in workers' : \A q \in Texts' : CapturedIn(t, q) => t.pc = "leaving"
      BY <1>0, <1>9, <2>3, <2>5, OldCaptures
    <3>3. /\ \A y, z \in transcripts' : SameTurn(y, z) => y = z
          /\ \A y \in transcripts' : \A q \in Texts' : ~SameTurn(y, q)
      BY <1>0, <1>4, <2>3, <2>6 DEF TextsOK, OnePlace
    <3> QED BY <3>1, <3>2, <3>3 DEF OnePlace, CapturedIn, SameTurn
  <2>8. ASSUME NEW o \in Voices, voice'[o].pending PROVE Coming(o)'
    <3>1. CASE o = v
      <4>1. p \in Texts' /\ p.of = o /\ p.generation = voice'[p.of].generation
        BY <1>p, <1>10, <2>3, <3>1
      <4> QED BY <4>1 DEF Coming, Current
    <3>2. CASE o # v
      BY <1>0, <1>4, <1>9, <1>10, <2>8, <3>2, StillComing DEF Texts
    <3> QED BY <3>1, <3>2
  <2> QED BY <2>1, <2>2, <2>7, <2>8 DEF TextsOK
<1>12. transcripts' \subseteq TranscriptType /\ posts' \subseteq PostType
  BY <1>0, <1>4, <1>p DEF VoiceTypeOK, TranscriptType, PostType
<1> QED BY <1>9, <1>11, <1>12, SoundStep

(* What was posted is taken, or comes too late.                            *)
LEMMA DeliverKeeps ==
  ASSUME VoiceInv, NEW p \in posts, Deliver(p)
  PROVE  VoiceInv'
<1> DEFINE v == p.of
<1> DEFINE w == World(v)
<1>0. VoiceTypeOK /\ OwnsAll /\ TextsOK
  BY DEF VoiceInv
<1>1. v \in Voices /\ p \in PostType
  BY <1>0, PostFields
<1>2. /\ w \in Worlds /\ w.me = v /\ w.its = voice[v] /\ w.lease = microphone
      /\ w.threads = workers /\ Leads(w, w)
  BY <1>0, <1>1, WorldOf
<1>3. posts' = posts \ {p} /\ transcripts' = transcripts
  BY DEF Deliver
<1>4. transcripts' \subseteq TranscriptType /\ posts' \subseteq PostType
  BY <1>0, <1>3 DEF VoiceTypeOK, TranscriptType, PostType
<1>5. ASSUME NEW u, Leads(w, u), Becomes(u), ~(p.what = "text" /\ Current(p))
      PROVE  VoiceInv'
  <2>1. ThreadsSound /\ ExpectsNoMore /\ TakesNoDevice
    BY <1>0, <1>1, <1>5, CallSound
  <2>2. TextsOK'
    BY <1>0, <1>3, <1>5, <2>1, TextsStay
  <2> QED BY <1>4, <2>1, <2>2, SoundStep
<1>6. Current(p) => p.session = w.its.session
  BY <1>0, <1>2 DEF TextsOK, PostOK
<1>7. CASE ~Current(p)
  <2>1. Becomes(w)
    BY <1>7 DEF Deliver
  <2> QED BY <1>2, <1>5, <1>7, <2>1
<1>8. CASE Current(p) /\ p.what # "text"
  <2>1. Becomes(ResumesIfNeeded(w))
    BY <1>6, <1>8 DEF Deliver
  <2> QED BY <1>2, <1>5, <1>8, <2>1, ResumesLeads
<1>9. CASE Current(p) /\ p.what = "text"
  <2> DEFINE i == [voice[v] EXCEPT !.pending = FALSE]
  <2> DEFINE x == [w EXCEPT !.its = i]
  <2>0. [w EXCEPT !.its.pending = FALSE] = x
    BY <1>2
  <2>1. Becomes(x)
    BY <1>6, <1>9, <2>0 DEF Deliver
  <2>2. voice[v] \in Controller
    BY <1>0, <1>1, VoiceFields
  <2>3. /\ i \in Controller /\ i.generation = voice[v].generation /\ i.session = voice[v].session
        /\ i.duplex = voice[v].duplex /\ i.state = voice[v].state /\ i.pending = FALSE
    BY <2>2 DEF Controller
  <2> HIDE DEF i
  <2>4. x.its = i /\ x.me = v /\ x.lease = microphone /\ x.threads = workers
    BY <1>2, <2>3, ItsWorld
  <2>5. voice' = [voice EXCEPT ![v] = i] /\ microphone' = microphone /\ workers' = workers
    BY <2>1, <2>4 DEF Becomes
  <2> HIDE DEF x
  <2>6. voice'[v] = i /\ \A o \in Voices \ {v} : voice'[o] = voice[o]
    BY <1>0, <1>1, <2>5 DEF VoiceTypeOK
  <2>7. ThreadsSound /\ TakesNoDevice
    <3>1. OwnOK(v, i, microphone, workers')
      <4>1. OwnOK(v, voice[v], microphone, workers)
        BY <1>0, <1>1 DEF OwnsAll
      <4> QED BY <4>1, <2>3, <2>5 DEF OwnOK
    <3>2. OwnsAll'
      BY <1>0, <1>1, <2>3, <2>5, <3>1, OwnKeeps DEF VoiceTypeOK
    <3>3. TurnsOn
      BY <2>3, <2>6 DEF TurnsOn, Advances
    <3>4. Descends /\ TakesNoDevice
      BY <2>5 DEF Descends, TakesNoDevice
    <3>5. voice' \in [Voices -> Controller]
      BY <1>0, <1>1, <2>3, <2>5 DEF VoiceTypeOK
    <3> QED BY <1>0, <2>5, <3>2, <3>3, <3>4, <3>5 DEF ThreadsSound, VoiceTypeOK
  <2>8. (\A y \in transcripts' : TranscriptOK(y)') /\ (\A q \in posts' : PostOK(q)') /\ OnePlace'
    BY <1>0, <1>3, <2>7, FilesStay
  <2>9. ASSUME NEW o \in Voices, voice'[o].pending PROVE Coming(o)'
    <3>1. o # v /\ voice'[o] = voice[o]
      BY <2>3, <2>6, <2>9
    <3> QED BY <1>0, <1>3, <2>7, <2>9, <3>1, StillComing DEF Texts
  <2>10. TextsOK'
    BY <2>8, <2>9 DEF TextsOK
  <2> QED BY <1>4, <2>7, <2>10, SoundStep
<1> QED BY <1>7, <1>8, <1>9

-----------------------------------------------------------------------------
(* Voice: the steps of a thread.                                           *)

LEMMA FiledAlready ==
  ASSUME VoiceTypeOK, UNCHANGED <<transcripts, posts>>
  PROVE  transcripts' \subseteq TranscriptType /\ posts' \subseteq PostType
BY DEF VoiceTypeOK, TranscriptType, PostType

LEMMA ThreadType ==
  ASSUME VoiceTypeOK, NEW t \in workers
  PROVE  /\ t \in Worker /\ t.of \in Voices /\ t.number \in Nat
         /\ t.pc \in {"recording", "audio", "silence", "leaving"} => t.kind = "capture"
         /\ t.kind # "capture" => t.kind = "speech"
         /\ t.pc \in {"speaking", "ended"} => t.kind = "speech"
         /\ t.kind = "capture" => t.origin \in Conversations
<1>1. t \in Worker
  BY DEF VoiceTypeOK
<1> QED BY <1>1 DEF Worker

LEMMA ThreadMoves ==
  ASSUME VoiceInv, NEW t \in workers, GivesUp(t) \/ EntersLock(t) \/ Breaks(t) \/ Recorded(t)
  PROVE  VoiceInv'
<1>0. VoiceTypeOK /\ OwnsAll /\ TextsOK
  BY DEF VoiceInv
<1>1. UNCHANGED <<voice, microphone, transcripts, posts>>
  BY DEF GivesUp, EntersLock, Breaks, Recorded
<1>2. ThreadsSound /\ ExpectsNoMore /\ TakesNoDevice
  <2>1. CASE GivesUp(t)
    BY <1>0, <2>1, ThreadGoneSound DEF GivesUp
  <2>2. ASSUME NEW p \in {"begin", "audio", "silence", "broken"}, Threads(t, p), t.pc # "leaving",
               p \in {"audio", "silence"} => t.kind = "capture"
        PROVE  ThreadsSound /\ ExpectsNoMore /\ TakesNoDevice
    BY <1>0, <1>1, <2>2, ThreadMoveSound
  <2>3. CASE EntersLock(t)
    BY <2>2, <2>3 DEF EntersLock
  <2>4. CASE Breaks(t)
    BY <2>2, <2>4 DEF Breaks
  <2>5. CASE Recorded(t)
    BY <1>0, <2>2, <2>5, ThreadType DEF Recorded
  <2> QED BY <2>1, <2>3, <2>4, <2>5
<1>3. TextsOK'
  BY <1>0, <1>1, <1>2, TextsStay
<1> QED BY <1>0, <1>1, <1>2, <1>3, FiledAlready, SoundStep

(* A thread that takes its device does not find the other one taken, but   *)
(* by a controller that may use both, as its own may.                      *)
LEMMA BeginsKeeps ==
  ASSUME VoiceInv, NEW t \in workers, Begins(t)
  PROVE  VoiceInv'
<1>0. VoiceTypeOK /\ OwnsAll /\ TextsOK /\ DevicesShared
  BY DEF VoiceInv
<1> DEFINE p == IF t.kind = "capture" THEN "recording" ELSE "speaking"
<1> DEFINE s == [t EXCEPT !.pc = p]
<1>1. UNCHANGED <<voice, microphone, transcripts, posts>> /\ Threads(t, p) /\ t.pc = "begin" /\ ~Waits(t)
  BY DEF Begins
<1>2. t \in Worker /\ t.of \in Voices
  BY <1>0, ThreadType
<1>3. s \in Worker /\ s.of = t.of /\ s.kind = t.kind /\ s.pc = p
  BY <1>2, WorkerMoves
<1>4. workers' = (workers \ {t}) \cup {s}
  BY <1>1 DEF Threads
<1>5. ThreadsSound /\ ExpectsNoMore
  <2>1. IF t.kind = "capture" THEN p \in {"begin", "recording", "audio", "silence", "broken"}
                              ELSE p \in {"begin", "speaking", "broken"}
    OBVIOUS
  <2> HIDE DEF p
  <2> QED BY <1>0, <1>1, <2>1, ThreadMoveSound
<1>6. DevicesShared'
  <2> SUFFICES ASSUME NEW a \in workers', a.pc = "recording", NEW b \in workers', b.pc = "speaking"
               PROVE  voice'[a.of].duplex /\ voice'[b.of].duplex
    BY DEF DevicesShared, Active
  <2>1. a = s \/ a \in workers
    BY <1>4
  <2>2. b = s \/ b \in workers
    BY <1>4
  <2>3. (a \in workers => a.kind = "capture") /\ (b \in workers => b.kind = "speech")
    BY <1>0, ThreadType
  <2>4. CASE a \in workers /\ b \in workers
    BY <1>0, <1>1, <2>4 DEF DevicesShared, Active
  <2>5. CASE a = s /\ b \in workers
    <3>1. t.kind = "capture" /\ b.kind # t.kind /\ b \in Active("speaking")
      BY <1>3, <2>3, <2>5 DEF Active
    <3> QED BY <1>1, <1>3, <2>5, <3>1 DEF Waits
  <2>6. CASE a \in workers /\ b = s
    <3>1. t.kind # "capture" /\ a.kind # t.kind /\ a \in Active("recording")
      BY <1>3, <2>3, <2>6 DEF Active
    <3> QED BY <1>1, <1>3, <2>6, <3>1 DEF Waits
  <2>7. ~(a = s /\ b = s)
    OBVIOUS
  <2> QED BY <2>1, <2>2, <2>4, <2>5, <2>6, <2>7
<1>7. TextsOK'
  BY <1>0, <1>1, <1>5, TextsStay
<1>8. VoiceTypeOK'
  BY <1>0, <1>1, <1>5 DEF ThreadsSound, VoiceTypeOK
<1> QED BY <1>5, <1>6, <1>7, <1>8 DEF VoiceInv, ThreadsSound

(* A thread's call that does not outdate the input.                        *)
LEMMA QuietCall ==
  ASSUME VoiceInv, NEW t \in workers, NEW u, Leads(World(t.of), u), u.threads = workers,
         NEW pc, ThreadCall(t, u, pc),
         IF pc = "gone" THEN t.kind # "capture"
         ELSE IF t.kind = "capture"
           THEN pc \in {"audio", "silence", "broken", "leaving"} /\ t.pc # "leaving"
           ELSE pc \in {"ended", "broken"} \/ pc = t.pc
  PROVE  ThreadsSound /\ ExpectsNoMore /\ TakesNoDevice
<1>0. VoiceTypeOK /\ OwnsAll
  BY DEF VoiceInv
<1>1. t.of \in Voices
  BY <1>0, ThreadType
<1>2. /\ World(t.of).me = t.of /\ World(t.of).its = voice[t.of] /\ World(t.of).lease = microphone
  BY <1>0, <1>1, WorldOf
<1>3. /\ u \in Worlds /\ u.its.duplex = voice[t.of].duplex
      /\ u.lease = microphone \/ {u.lease, microphone} \subseteq {Nobody, t.of}
      /\ Stays(voice[t.of], u.its) \/ Later(voice[t.of], u.its)
      /\ OwnOK(t.of, u.its, u.lease, workers)
  BY <1>2 DEF Leads
<1>4. pc = "gone" => OwnOK(t.of, u.its, u.lease, workers \ {t})
  BY <1>3, OwnRemoved DEF Captures
<1>5. IF pc = "gone" THEN OwnOK(t.of, u.its, u.lease, workers \ {t})
      ELSE /\ OwnOK(t.of, u.its, u.lease, workers)
           /\ IF t.kind = "capture"
                THEN pc \in {"audio", "silence", "broken", "leaving"} /\ t.pc # "leaving"
                ELSE pc \in {"ended", "broken"} \/ pc = t.pc
  BY <1>3, <1>4
<1> QED BY <1>0, <1>3, <1>5, ThreadCallSound

(* What a thread posts asks the screen to resume.                          *)
LEMMA PostSound ==
  ASSUME VoiceInv, NEW t \in workers, NEW u \in Worlds, NEW pc, ThreadCall(t, u, pc),
         ThreadsSound, ExpectsNoMore, TakesNoDevice, transcripts' = transcripts,
         Posts(t, u) \/ posts' = posts
  PROVE  VoiceInv'
<1> DEFINE p == [of |-> t.of, generation |-> u.its.generation, what |-> "resume",
                 session |-> u.its.session, origin |-> u.its.session]
<1>0. VoiceTypeOK /\ TextsOK
  BY DEF VoiceInv
<1>1. t.of \in Voices /\ u.its \in Controller
  BY <1>0, ThreadType, WorldFields
<1>2. voice'[t.of] = u.its
  BY <1>0, <1>1 DEF ThreadCall, VoiceTypeOK
<1>3. u.its.generation \in Nat /\ u.its.session \in Conversations
  BY <1>1, ControllerFields
<1>4. posts' \subseteq posts \cup {p} /\ posts \subseteq posts'
  BY DEF Posts
<1>5. ASSUME NEW q \in posts' \ posts PROVE q \in PostType /\ q.what = "resume" /\ PostOK(q)'
  <2>1. /\ q.of = t.of /\ q.generation = u.its.generation /\ q.what = "resume"
        /\ q.session = u.its.session /\ q.origin = u.its.session /\ q \in PostType
    BY <1>1, <1>3, <1>4 DEF PostType
  <2> QED BY <1>2, <1>3, <2>1 DEF PostOK, Current
<1>6. TextsOK'
  BY <1>0, <1>4, <1>5, TextsStay
<1>7. transcripts' \subseteq TranscriptType /\ posts' \subseteq PostType
  <2>1. posts \subseteq PostType /\ transcripts \subseteq TranscriptType
    BY <1>0 DEF VoiceTypeOK, PostType, TranscriptType
  <2> QED BY <1>5, <2>1
<1> QED BY <1>6, <1>7, SoundStep

LEMMA SpeechCalls ==
  ASSUME VoiceInv, NEW t \in workers,
         SpeechStarted(t) \/ Silence(t) \/ Spoken(t) \/ SpeechEnds(t) \/ SpeechFails(t)
  PROVE  VoiceInv'
<1> DEFINE w == World(t.of)
<1>0. VoiceTypeOK /\ OwnsAll
  BY DEF VoiceInv
<1>1. t.of \in Voices
  BY <1>0, ThreadType
<1>2. /\ w \in Worlds /\ w.me = t.of /\ w.its = voice[t.of] /\ w.threads = workers /\ Leads(w, w)
  BY <1>0, <1>1, WorldOf
<1>w. w = World(t.of)
  BY DEF w
<1> HIDE DEF w
<1>3. CASE SpeechStarted(t)
  <2> DEFINE s == IF w.its.duplex /\ w.its.speech THEN Silenced(w) ELSE w
  <2>1. Leads(w, s)
    BY <1>2, SilencedLeads
  <2>2. Becomes(Enters(s, "detected")) /\ UNCHANGED <<transcripts, posts>>
    BY <1>3, <1>w DEF SpeechStarted
  <2> HIDE DEF s
  <2>3. Leads(w, Enters(s, "detected"))
    BY <2>1, EntersLeads DEF VoiceStates, Engaged, Universal
  <2> QED BY <1>1, <1>w, <2>2, <2>3, CallKeeps
<1>4. CASE Silence(t)
  <2> DEFINE r == Enters(w, "ready")
  <2>1. Leads(w, r) /\ r \in Worlds /\ r.threads = workers
    BY <1>2, EntersLeads, EntersWorld DEF VoiceStates, Universal, Edited
  <2>2. ThreadCall(t, r, "leaving") /\ Posts(t, r) /\ transcripts' = transcripts /\ t.pc = "silence"
    BY <1>4, <1>w DEF Silence
  <2>3. t.kind = "capture"
    BY <1>0, <2>2, ThreadType
  <2> HIDE DEF r
  <2>4. ThreadsSound /\ ExpectsNoMore /\ TakesNoDevice
    BY <1>w, <2>1, <2>2, <2>3, QuietCall
  <2> QED BY <2>1, <2>2, <2>4, PostSound
<1>5. CASE Spoken(t)
  <2>1. t.kind # "capture" /\ t.pc = "speaking"
    BY <1>0, <1>5, ThreadType DEF Spoken
  <2>2. ASSUME NEW x, Flags(w, x), NEW pc \in {"speaking", "ended"}, ThreadCall(t, x, pc)
        PROVE  VoiceInv'
    <3>1. Leads(w, x) /\ x \in Worlds /\ x.threads = workers
      BY <1>2, <2>2, FlagsLeads DEF Flags, Edited
    <3>2. ThreadsSound /\ ExpectsNoMore /\ TakesNoDevice
      BY <1>w, <2>1, <2>2, <3>1, QuietCall
    <3>3. transcripts' = transcripts /\ posts' = posts
      BY <1>5 DEF Spoken
    <3> QED BY <2>2, <3>1, <3>2, <3>3, PostSound
  <2>3. CASE w.its.queue > 0
    <3>1. w.its.queue - 1 \in Nat
      BY <1>2, <2>3, WorldFields, ControllerFields
    <3>2. Flags(w, [w EXCEPT !.its.queue = @ - 1])
      <4>1. [w EXCEPT !.its.queue = @ - 1] = [w EXCEPT !.its.queue = w.its.queue - 1]
        OBVIOUS
      <4> QED BY <1>2, <3>1, <4>1, QueuedWorld
    <3>3. ThreadCall(t, [w EXCEPT !.its.queue = @ - 1], "speaking")
      BY <1>5, <1>w, <2>3 DEF Spoken
    <3> QED BY <2>2, <3>2, <3>3
  <2>4. CASE ~(w.its.queue > 0)
    <3>1. Flags(w, [w EXCEPT !.its.speech = FALSE])
      BY <1>2, FlagsWorld
    <3>2. ThreadCall(t, [w EXCEPT !.its.speech = FALSE], "ended")
      BY <1>5, <1>w, <2>4 DEF Spoken
    <3> QED BY <2>2, <3>1, <3>2
  <2> QED BY <2>3, <2>4
<1>6. CASE SpeechEnds(t)
  <2> DEFINE s == [w EXCEPT !.its.speech = FALSE]
  <2> DEFINE to == IF s.its.conversation THEN "ready" ELSE "idle"
  <2> DEFINE r == Enters(s, to)
  <2>d. /\ t.pc = "ended" /\ transcripts' = transcripts
        /\ IF s.its.state \in Engaged THEN ThreadCall(t, s, "gone") /\ posts' = posts
           ELSE ThreadCall(t, r, "gone") /\ Posts(t, r)
    BY <1>6, <1>w DEF SpeechEnds
  <2>k. t.kind # "capture"
    BY <1>0, <2>d, ThreadType
  <2>1. Flags(w, s)
    BY <1>2, FlagsWorld
  <2> HIDE DEF s
  <2>2. Leads(w, s) /\ s \in Worlds /\ s.threads = workers
    BY <1>2, <2>1, FlagsLeads DEF Flags, Edited
  <2>3. to \in {"ready", "idle"}
    OBVIOUS
  <2> HIDE DEF to
  <2>4. s.its.state \notin Engaged => (Leads(w, r) /\ r \in Worlds /\ r.threads = workers)
    BY <2>2, <2>3, EntersLeads, EntersWorld DEF Edited, VoiceStates, Universal, Engaged
  <2> HIDE DEF r
  <2>5. ASSUME NEW x, Leads(w, x), x \in Worlds, x.threads = workers, ThreadCall(t, x, "gone"),
               Posts(t, x) \/ posts' = posts
        PROVE  VoiceInv'
    <3>1. ThreadsSound /\ ExpectsNoMore /\ TakesNoDevice
      BY <1>w, <2>k, <2>5, QuietCall
    <3> QED BY <2>d, <2>5, <3>1, PostSound
  <2> QED BY <2>d, <2>2, <2>4, <2>5
<1>7. CASE SpeechFails(t)
  <2> DEFINE a == [w EXCEPT !.its.speech = FALSE]
  <2> DEFINE s == [a EXCEPT !.its.queue = 0]
  <2> DEFINE p == [s EXCEPT !.its.paused = s.its.conversation]
  <2> DEFINE f == Enters(p, "error")
  <2>0. [w EXCEPT !.its.speech = FALSE, !.its.queue = 0] = s
    OBVIOUS
  <2>d. /\ t.kind # "capture" /\ UNCHANGED <<transcripts, posts>>
        /\ ThreadCall(t, IF s.its.state = "speaking" THEN f ELSE s, "gone")
    BY <1>7, <1>w, <2>0 DEF SpeechFails
  <2>1. Flags(w, a)
    BY <1>2, FlagsWorld
  <2> HIDE DEF a
  <2>2. Flags(a, s)
    BY <2>1, QueuedWorld DEF Flags, Edited
  <2> HIDE DEF s
  <2>3. Flags(w, s) /\ s \in Worlds
    BY <2>1, <2>2, FlagsTwice DEF Flags, Edited
  <2>4. Flags(s, p)
    BY <2>3, WorldFields, ControllerFields, FlagsWorld
  <2> HIDE DEF p
  <2>5. Flags(w, p) /\ p \in Worlds /\ p.its.state = s.its.state
    BY <2>3, <2>4, FlagsTwice DEF Flags, Edited
  <2>6. Leads(w, s) /\ Leads(w, p) /\ s.threads = workers /\ p.threads = workers
    BY <1>2, <2>3, <2>5, FlagsLeads DEF Flags, Edited
  <2>7. s.its.state = "speaking" => (Leads(w, f) /\ f \in Worlds /\ f.threads = workers)
    BY <2>5, <2>6, EntersLeads, EntersWorld DEF Edited, VoiceStates, Universal
  <2> HIDE DEF f
  <2>8. ASSUME NEW x, Leads(w, x), x \in Worlds, x.threads = workers, ThreadCall(t, x, "gone")
        PROVE  VoiceInv'
    <3>1. ThreadsSound /\ ExpectsNoMore /\ TakesNoDevice
      BY <1>w, <2>d, <2>8, QuietCall
    <3> QED BY <2>d, <2>8, <3>1, PostSound
  <2> QED BY <2>d, <2>3, <2>6, <2>7, <2>8
<1> QED BY <1>3, <1>4, <1>5, <1>6, <1>7

(* A capture that ends, or fails.                                          *)
LEMMA CaptureEnds ==
  ASSUME VoiceInv, NEW t \in workers, CaptureFails(t) \/ CaptureLeaves(t)
  PROVE  VoiceInv'
<1> DEFINE v == t.of
<1> DEFINE w == World(v)
<1>0. VoiceTypeOK /\ OwnsAll
  BY DEF VoiceInv
<1>1. v \in Voices /\ t \in Worker /\ t.kind = "capture" /\ t.number = voice[v].generation
  BY <1>0, ThreadType DEF CaptureFails, CaptureLeaves, Live
<1>2. /\ w \in Worlds /\ w.me = v /\ w.its = voice[v] /\ w.lease = microphone
      /\ w.threads = workers /\ Leads(w, w)
  BY <1>0, <1>1, WorldOf
<1>3. ASSUME NEW u \in Worlds, u.its.duplex = voice[v].duplex,
             u.lease = microphone \/ {u.lease, microphone} \subseteq {Nobody, v}, u.lease # v,
             Stays(voice[v], u.its) \/ Later(voice[v], u.its),
             ThreadCall(t, u, "gone"),
             UNCHANGED <<transcripts, posts>>,
             u.its = voice[v] \/ u.its.generation > voice[v].generation
      PROVE  VoiceInv'
  <2>1. OwnOK(v, voice[v], microphone, workers)
    BY <1>0, <1>1 DEF OwnsAll
  <2>2. \A c \in Captures(workers \ {t}, v) : c.number < u.its.generation
    <3> SUFFICES ASSUME NEW c \in Captures(workers \ {t}, v) PROVE c.number < u.its.generation
      OBVIOUS
    <3>1. c \in Captures(workers, v) /\ c # t /\ t \in Captures(workers, v)
      BY <1>1 DEF Captures
    <3>2. c.number <= voice[v].generation /\ c.number # voice[v].generation
      BY <1>1, <2>1, <3>1 DEF OwnOK
    <3>3. c.number \in Nat
      BY <1>2, <3>1, CaptureNumbers
    <3>4. voice[v].generation \in Nat /\ u.its.generation \in Nat
      BY <1>0, <1>1, VoiceFields, WorldFields, ControllerFields
    <3> QED BY <1>3, <3>2, <3>3, <3>4
  <2>3. OwnOK(v, u.its, u.lease, workers \ {t})
    <3>1. \A c \in Captures(workers \ {t}, v) : c.number \in Nat
      BY <1>2, CaptureNumbers DEF Captures
    <3>2. u.its.generation \in Nat
      BY WorldFields, ControllerFields
    <3>3. \A c \in Captures(workers \ {t}, v) : c.number <= u.its.generation /\ c.number # u.its.generation
      BY <2>2, <3>1, <3>2
    <3>4. \A c, d \in Captures(workers \ {t}, v) : c.number = d.number => c = d
      BY <2>1 DEF OwnOK, Captures
    <3> QED BY <1>3, <3>3, <3>4 DEF OwnOK
  <2>4. ThreadsSound /\ ExpectsNoMore /\ TakesNoDevice
    BY <1>0, <1>3, <2>3, ThreadCallSound
  <2> QED BY <1>3, <2>4, PostSound
<1>4. CASE CaptureFails(t)
  <2>1. Leads(w, Fails(w)) /\ Later(w.its, Fails(w).its) /\ Fails(w).lease # v
    BY <1>2, LeadsNearly, FailsLeads
  <2>2. ThreadCall(t, Fails(w), "gone") /\ UNCHANGED <<transcripts, posts>>
    BY <1>4 DEF CaptureFails
  <2> QED BY <1>2, <1>3, <2>1, <2>2 DEF Leads, Later
<1>5. CASE CaptureLeaves(t)
  <2>1. /\ Released(w) \in Worlds /\ Released(w).its = voice[v] /\ Released(w).lease # v
        /\ Released(w).lease = microphone \/ {Released(w).lease, microphone} \subseteq {Nobody, v}
    BY <1>2, ReleasedWorld
  <2>2. ThreadCall(t, Released(w), "gone") /\ UNCHANGED <<transcripts, posts>>
    BY <1>5 DEF CaptureLeaves
  <2> QED BY <1>2, <1>3, <2>1, <2>2 DEF Stays
<1> QED BY <1>4, <1>5

-----------------------------------------------------------------------------
(* Voice: what was recorded goes to the transcription.                     *)

LEMMA SubmitKeeps ==
  ASSUME VoiceInv, NEW t \in workers, SubmitTranscription(t)
  PROVE  VoiceInv'
<1> DEFINE v == t.of
<1> DEFINE w == World(v)
<1> DEFINE u == Enters(w, "transcribing")
<1> DEFINE x == [of |-> v, generation |-> t.number, origin |-> t.origin, pc |-> "sent"]
<1> DEFINE s == [t EXCEPT !.pc = "leaving"]
<1>0. VoiceTypeOK /\ OwnsAll /\ TextsOK
  BY DEF VoiceInv
<1>1. /\ t.pc = "audio" /\ Live(t) /\ ThreadCall(t, u, "leaving")
      /\ transcripts' = transcripts \cup {x} /\ posts' = posts
  BY DEF SubmitTranscription
<1>2. /\ v \in Voices /\ t \in Worker /\ t.kind = "capture" /\ t.number = voice[v].generation
      /\ t.number \in Nat /\ t.origin \in Conversations
  BY <1>0, <1>1, ThreadType DEF Live
<1>3. /\ w \in Worlds /\ w.me = v /\ w.its = voice[v] /\ w.threads = workers /\ Leads(w, w)
  BY <1>0, <1>2, WorldOf
<1>w. w = World(v)
  BY DEF w
<1> HIDE DEF w
<1>4. Leads(w, u) /\ Edited(w, u)
  BY <1>3, EntersLeads, EntersWorld DEF VoiceStates, Engaged, Universal
<1>5. voice' = [voice EXCEPT ![v] = u.its] /\ workers' = (workers \ {t}) \cup {s}
  BY <1>1 DEF ThreadCall, Threads
<1> HIDE DEF u
<1>6. ThreadsSound /\ ExpectsNoMore /\ TakesNoDevice
  BY <1>1, <1>2, <1>3, <1>4, <1>w, QuietCall DEF Edited
<1>7. voice'[v].generation = voice[v].generation /\ voice'[v].session = voice[v].session
  BY <1>0, <1>2, <1>3, <1>4, <1>5 DEF Edited, VoiceTypeOK
<1>8. s.pc = "leaving"
  BY <1>2, WorkerMoves
<1> HIDE DEF s
<1>x. /\ x.of = v /\ x.generation = t.number /\ x.origin = t.origin /\ x.pc = "sent"
      /\ x \in TranscriptType
  BY <1>2 DEF TranscriptType
<1> HIDE DEF x
<1>c. t \in Captures(workers, v) /\ OwnOK(v, voice[v], microphone, workers)
  BY <1>0, <1>2 DEF Captures, OwnsAll
<1>9. CapturedIn(t, x) /\ \A o \in workers : CapturedIn(o, x) => o = t
  <2>1. ASSUME NEW o \in workers, CapturedIn(o, x) PROVE o = t
    <3>1. o \in Captures(workers, v) /\ o.number = t.number
      BY <1>x, <2>1 DEF CapturedIn, Captures
    <3> QED BY <1>c, <3>1 DEF OwnOK
  <2> QED BY <1>2, <1>x, <2>1 DEF CapturedIn
<1>10. /\ \A y \in transcripts : ~SameTurn(x, y)
       /\ \A p \in Texts : ~SameTurn(x, p)
  <2>1. ASSUME NEW y, SameTurn(x, y) PROVE CapturedIn(t, y)
    BY <1>9, <2>1 DEF SameTurn, CapturedIn
  <2> QED BY <1>0, <1>1, <2>1 DEF TextsOK, OnePlace
<1>11. TextsOK'
  <2>1. \A y \in transcripts' : TranscriptOK(y)'
    <3> SUFFICES ASSUME NEW y \in transcripts', y \notin transcripts PROVE TranscriptOK(y)'
      BY <1>0, <1>6, OldTranscripts
    <3>1. y = x
      BY <1>1
    <3>2. t.origin = voice[v].session
      BY <1>2, <1>c DEF OwnOK
    <3> QED BY <1>2, <1>7, <1>x, <3>1, <3>2 DEF TranscriptOK, Current
  <2>2. \A q \in posts' : PostOK(q)'
    BY <1>0, <1>1, <1>6, OldPosts
  <2>3. Texts' = Texts
    BY <1>1 DEF Texts
  <2>4. \A o \in workers' : CapturedIn(o, x) => o.pc = "leaving"
    BY <1>5, <1>8, <1>9
  <2>5. OnePlace'
    <3>1. \A o \in workers' : \A y \in transcripts' : CapturedIn(o, y) => o.pc = "leaving"
      BY <1>0, <1>1, <1>6, <2>4, OldCaptures
    <3>2. \A o \in workers' : \A q \in Texts' : CapturedIn(o, q) => o.pc = "leaving"
      BY <1>0, <1>6, <2>3, OldCaptures
    <3>3. /\ \A y, z \in transcripts' : SameTurn(y, z) => y = z
          /\ \A y \in transcripts' : \A q \in Texts' : ~SameTurn(y, q)
      BY <1>0, <1>1, <1>10, <2>3 DEF TextsOK, OnePlace, SameTurn
    <3> QED BY <3>1, <3>2, <3>3 DEF OnePlace, CapturedIn, SameTurn
  <2>6. ASSUME NEW o \in Voices, voice'[o].pending PROVE Coming(o)'
    BY <1>0, <1>1, <1>6, <2>6, StillComing DEF Texts, ExpectsNoMore
  <2> QED BY <2>1, <2>2, <2>5, <2>6 DEF TextsOK
<1>12. transcripts' \subseteq TranscriptType /\ posts' \subseteq PostType
  BY <1>0, <1>1, <1>x DEF VoiceTypeOK, TranscriptType, PostType
<1> QED BY <1>6, <1>11, <1>12, SoundStep

(* A controller that changes without a change of its turn.                 *)
LEMMA AloneSound ==
  ASSUME VoiceInv, NEW v \in Voices, NEW i \in Controller,
         voice' = [voice EXCEPT ![v] = i], UNCHANGED <<microphone, workers>>,
         i.generation = voice[v].generation, i.session = voice[v].session,
         i.duplex = voice[v].duplex, i.state = voice[v].state
  PROVE  ThreadsSound /\ TakesNoDevice
<1>0. VoiceTypeOK /\ OwnsAll
  BY DEF VoiceInv
<1>1. OwnOK(v, i, microphone, workers)
  BY <1>0 DEF OwnsAll, OwnOK
<1>2. OwnsAll'
  <2>1. microphone \in Voices \cup {Nobody}
    BY <1>0 DEF VoiceTypeOK
  <2> QED BY <1>0, <1>1, <2>1, OwnKeeps
<1>3. TurnsOn
  <2> SUFFICES ASSUME NEW o \in Voices
               PROVE  voice'[o].duplex = voice[o].duplex /\ Advances(voice[o], voice'[o])
    BY DEF TurnsOn
  <2>1. voice'[o] = IF o = v THEN i ELSE voice[o]
    BY <1>0 DEF VoiceTypeOK
  <2> QED BY <2>1 DEF Advances
<1>4. Descends /\ TakesNoDevice
  BY DEF Descends, TakesNoDevice
<1>5. voice' \in [Voices -> Controller] /\ microphone' \in Voices \cup {Nobody} /\ workers' \subseteq Worker
  BY <1>0 DEF VoiceTypeOK
<1> QED BY <1>2, <1>3, <1>4, <1>5 DEF ThreadsSound

LEMMA TranscribedKeeps ==
  ASSUME VoiceInv, NEW x \in transcripts, Transcribed(x)
  PROVE  VoiceInv'
<1> DEFINE v == x.of
<1> DEFINE a == [voice[v] EXCEPT !.completed = x.generation]
<1> DEFINE b == [a EXCEPT !.pending = TRUE]
<1> DEFINE i == [b EXCEPT !.review = TRUE]
<1> DEFINE y == [x EXCEPT !.pc = "text"]
<1>0. VoiceTypeOK /\ OwnsAll /\ TextsOK
  BY DEF VoiceInv
<1>1. x \in TranscriptType /\ v \in Voices /\ x.generation \in Nat /\ TranscriptOK(x)
  BY <1>0, TranscriptFields DEF TextsOK
<1>2. /\ x.pc = "sent" /\ x.generation = voice[v].generation /\ voice[v].state = "transcribing"
      /\ transcripts' = (transcripts \ {x}) \cup {y} /\ UNCHANGED <<microphone, workers>>
      /\ posts' = posts
  BY DEF Transcribed, Awaited, Current
<1>3. voice' = [voice EXCEPT ![v] = i]
  <2>1. voice' = [voice EXCEPT ![v].completed = x.generation, ![v].pending = TRUE, ![v].review = TRUE]
    BY DEF Transcribed
  <2> QED BY <1>0, <1>1, <2>1 DEF VoiceTypeOK
<1>4. voice[v] \in Controller
  BY <1>0, <1>1, VoiceFields
<1>5. /\ i \in Controller /\ i.generation = voice[v].generation /\ i.session = voice[v].session
      /\ i.duplex = voice[v].duplex /\ i.state = voice[v].state
  <2>1. /\ a \in Controller /\ a.generation = voice[v].generation /\ a.session = voice[v].session
        /\ a.duplex = voice[v].duplex /\ a.state = voice[v].state
    BY <1>1, <1>4 DEF Controller
  <2> HIDE DEF a
  <2>2. /\ b \in Controller /\ b.generation = voice[v].generation /\ b.session = voice[v].session
        /\ b.duplex = voice[v].duplex /\ b.state = voice[v].state
    BY <2>1 DEF Controller
  <2> HIDE DEF b
  <2> QED BY <2>2 DEF Controller
<1> HIDE DEF i
<1>6. ThreadsSound /\ TakesNoDevice
  BY <1>1, <1>2, <1>3, <1>5, AloneSound
<1>7. voice'[v] = i /\ \A o \in Voices \ {v} : voice'[o] = voice[o]
  BY <1>0, <1>1, <1>3 DEF VoiceTypeOK
<1>y. /\ y.of = v /\ y.generation = x.generation /\ y.origin = x.origin /\ y.pc = "text"
      /\ y \in TranscriptType
  BY <1>1 DEF TranscriptType
<1> HIDE DEF y
<1>8. TextsOK'
  <2>1. \A z \in transcripts' : TranscriptOK(z)'
    <3> SUFFICES ASSUME NEW z \in transcripts', z \notin transcripts PROVE TranscriptOK(z)'
      BY <1>0, <1>6, OldTranscripts
    <3>1. z = y
      BY <1>2
    <3> QED BY <1>1, <1>2, <1>5, <1>7, <1>y, <3>1 DEF TranscriptOK, Current
  <2>2. \A q \in posts' : PostOK(q)'
    BY <1>0, <1>2, <1>6, OldPosts
  <2>3. Texts' = Texts
    BY <1>2 DEF Texts
  <2>4. /\ \A z : SameTurn(y, z) <=> SameTurn(x, z)
        /\ \A z : SameTurn(z, y) <=> SameTurn(z, x)
        /\ \A t : CapturedIn(t, y) <=> CapturedIn(t, x)
    BY <1>y DEF SameTurn, CapturedIn
  <2>5. OnePlace'
    <3>1. \A t \in workers' : \A z \in transcripts' : CapturedIn(t, z) => t.pc = "leaving"
      BY <1>0, <1>2, <1>6, <2>4, OldCaptures
    <3>2. \A t \in workers' : \A q \in Texts' : CapturedIn(t, q) => t.pc = "leaving"
      BY <1>0, <1>6, <2>3, OldCaptures
    <3>3. \A z, o \in transcripts' : SameTurn(z, o) => z = o
      BY <1>0, <1>2, <2>4 DEF TextsOK, OnePlace
    <3>4. \A z \in transcripts' : \A q \in Texts' : ~SameTurn(z, q)
      BY <1>0, <1>2, <2>3, <2>4 DEF TextsOK, OnePlace
    <3> QED BY <3>1, <3>2, <3>3, <3>4 DEF OnePlace, CapturedIn, SameTurn
  <2>6. ASSUME NEW o \in Voices, voice'[o].pending PROVE Coming(o)'
    <3>1. CASE o = v
      <4>1. y \in transcripts' /\ y.of = o /\ y.pc = "text" /\ y.generation = voice'[y.of].generation
        BY <1>2, <1>5, <1>7, <1>y, <3>1
      <4> QED BY <4>1 DEF Coming, Current
    <3>2. CASE o # v
      <4>1. \A z \in transcripts : z.of = o /\ z.pc = "text" /\ Current(z) => z \in transcripts'
        BY <1>2, <3>2
      <4>2. \A q \in Texts : q.of = o /\ Current(q) => q \in posts'
        BY <1>2 DEF Texts
      <4>3. voice[o].pending /\ voice'[o].generation = voice[o].generation
        BY <1>7, <2>6, <3>2
      <4> QED BY <1>0, <1>6, <4>1, <4>2, <4>3, StillComing
    <3> QED BY <3>1, <3>2
  <2> QED BY <2>1, <2>2, <2>5, <2>6 DEF TextsOK
<1>9. transcripts' \subseteq TranscriptType /\ posts' \subseteq PostType
  BY <1>0, <1>2, <1>y DEF VoiceTypeOK, TranscriptType, PostType
<1> QED BY <1>6, <1>8, <1>9, SoundStep

(* The text reaches the screen, whose controller was transcribing: no      *)
(* other transcription of its turn is left.                                *)
LEMMA PostedKeeps ==
  ASSUME VoiceInv, NEW x \in transcripts, TranscriptPosted(x)
  PROVE  VoiceInv'
<1> DEFINE v == x.of
<1> DEFINE w == World(v)
<1> DEFINE u == Enters(w, "review")
<1> DEFINE p == [of |-> v, generation |-> x.generation, what |-> "text",
                 session |-> u.its.session, origin |-> x.origin]
<1>0. VoiceTypeOK /\ OwnsAll /\ TextsOK /\ DevicesShared
  BY DEF VoiceInv
<1>1. x \in TranscriptType /\ v \in Voices /\ x.generation \in Nat /\ TranscriptOK(x)
  BY <1>0, TranscriptFields DEF TextsOK
<1>2. /\ x.pc = "text" /\ x.generation = voice[v].generation /\ voice[v].state = "transcribing"
      /\ x.origin = voice[v].session
  BY <1>1 DEF TranscriptPosted, TranscriptOK, Current
<1>3. /\ w \in Worlds /\ w.me = v /\ w.its = voice[v] /\ w.lease = microphone /\ w.threads = workers
  BY <1>0, <1>1, WorldOf
<1>w. w = World(v)
  BY DEF w
<1>d. /\ Becomes(u) /\ transcripts' = transcripts \ {x}
      /\ posts' = IF u.its.state # "review" THEN posts ELSE posts \cup {p}
  BY DEF TranscriptPosted
<1> HIDE DEF w
<1>4. Edited(w, u)
  BY <1>3, EntersWorld DEF VoiceStates, Engaged
<1>5. u.its.state = "review"
  <2>1. "review" \in Follow[w.its.state]
    BY <1>2, <1>3 DEF Follow, VoiceStates, Engaged, Universal
  <2>2. u = [w EXCEPT !.its.state = "review"]
    BY <2>1 DEF Enters
  <2>3. w.its \in Controller
    BY <1>3, WorldFields
  <2> QED BY <1>3, <2>2, <2>3 DEF Worlds, Controller
<1>6. /\ u.its \in Controller /\ u.its.generation = voice[v].generation
      /\ u.its.session = voice[v].session /\ u.its.pending = voice[v].pending
      /\ u.its.duplex = voice[v].duplex
      /\ u.me = v /\ u.lease = microphone /\ u.threads = workers
  BY <1>3, <1>4, WorldFields DEF Edited
<1>7. posts' = posts \cup {p}
  BY <1>5, <1>d
<1>8. voice' = [voice EXCEPT ![v] = u.its] /\ microphone' = microphone /\ workers' = workers
  BY <1>6, <1>d DEF Becomes
<1>p. /\ p.of = v /\ p.generation = x.generation /\ p.what = "text"
      /\ p.session = voice[v].session /\ p.origin = voice[v].session /\ p \in PostType
  <2>1. voice[v].session \in Conversations
    BY <1>0, <1>1, VoiceFields, ControllerFields
  <2> QED BY <1>1, <1>2, <1>6, <2>1 DEF PostType
<1> HIDE DEF u, p
<1>9. voice'[v] = u.its /\ \A o \in Voices \ {v} : voice'[o] = voice[o]
  BY <1>0, <1>1, <1>8 DEF VoiceTypeOK
<1>10. \A o \in Voices : /\ voice'[o].generation = voice[o].generation
                         /\ voice'[o].session = voice[o].session
                         /\ voice'[o].pending = voice[o].pending
                         /\ voice'[o].duplex = voice[o].duplex
  BY <1>6, <1>9
<1>11. OwnsAll'
  <2>1. OwnOK(v, u.its, microphone, workers')
    BY <1>0, <1>1, <1>6, <1>8 DEF OwnsAll, OwnOK
  <2>2. microphone \in Voices \cup {Nobody}
    BY <1>0 DEF VoiceTypeOK
  <2> QED BY <1>0, <1>1, <1>6, <1>8, <2>1, <2>2, OwnKeeps
<1>12. DevicesShared'
  <2> SUFFICES ASSUME NEW t \in workers, t.pc = "recording", NEW o \in workers, o.pc = "speaking"
               PROVE  voice'[t.of].duplex /\ voice'[o.of].duplex
    BY <1>8 DEF DevicesShared, Active
  <2> QED BY <1>0, <1>10, ThreadType DEF DevicesShared, Active
<1>13. VoiceTypeOK'
  BY <1>0, <1>1, <1>6, <1>7, <1>8, <1>d, <1>p DEF VoiceTypeOK, PostType
<1>14. \A y \in transcripts : y # x => ~SameTurn(x, y)
  BY <1>0 DEF TextsOK, OnePlace
<1>15. TextsOK'
  <2>1. ASSUME NEW y \in transcripts' PROVE TranscriptOK(y)'
    <3>1. y \in transcripts /\ y # x /\ y.of \in Voices /\ TranscriptOK(y)
      BY <1>0, <1>d, TranscriptFields DEF TextsOK
    <3>2. y.of = v => y.generation # voice[v].generation
      BY <1>2, <1>14, <3>1 DEF SameTurn
    <3>3. y.of # v => voice'[y.of].state = voice[y.of].state
      BY <1>9, <3>1
    <3> QED BY <1>10, <3>1, <3>2, <3>3 DEF TranscriptOK, Current
  <2>2. ASSUME NEW q \in posts' PROVE PostOK(q)'
    <3>1. CASE q \in posts
      <4>1. q.of \in Voices /\ PostOK(q)
        BY <1>0, <3>1, PostFields DEF TextsOK
      <4> QED BY <1>10, <4>1 DEF PostOK, Current
    <3>2. CASE q = p
      BY <1>1, <1>2, <1>10, <1>p, <3>2 DEF PostOK, Current
    <3> QED BY <1>7, <3>1, <3>2
  <2>3. Texts' = Texts \cup {p}
    BY <1>7, <1>p DEF Texts
  <2>4. /\ \A z : SameTurn(z, p) <=> SameTurn(z, x)
        /\ \A z : SameTurn(x, z) <=> SameTurn(z, x)
        /\ \A t : CapturedIn(t, p) <=> CapturedIn(t, x)
    BY <1>p DEF SameTurn, CapturedIn
  <2>5. OnePlace'
    <3>1. \A t \in workers' : \A y \in transcripts' : CapturedIn(t, y) => t.pc = "leaving"
      BY <1>0, <1>8, <1>d DEF TextsOK, OnePlace
    <3>2. \A t \in workers' : \A q \in Texts' : CapturedIn(t, q) => t.pc = "leaving"
      BY <1>0, <1>8, <2>3, <2>4 DEF TextsOK, OnePlace
    <3>3. \A y, z \in transcripts' : SameTurn(y, z) => y = z
      BY <1>0, <1>d DEF TextsOK, OnePlace
    <3>4. \A y \in transcripts' : \A q \in Texts' : ~SameTurn(y, q)
      BY <1>0, <1>14, <1>d, <2>3, <2>4 DEF TextsOK, OnePlace
    <3> QED BY <3>1, <3>2, <3>3, <3>4 DEF OnePlace, CapturedIn, SameTurn
  <2>6. ASSUME NEW o \in Voices, voice'[o].pending PROVE Coming(o)'
    <3>1. CASE o = v
      <4>1. p \in Texts' /\ p.of = o /\ p.generation = voice'[p.of].generation
        BY <1>1, <1>2, <1>10, <1>p, <2>3, <3>1
      <4> QED BY <4>1 DEF Coming, Current
    <3>2. CASE o # v
      <4>1. Coming(o)
        BY <1>0, <1>10, <2>6 DEF TextsOK
      <4>2. \A y \in transcripts : y.of = o => y \in transcripts'
        BY <1>d, <3>2
      <4> QED BY <1>10, <2>3, <4>1, <4>2 DEF Coming, Current
    <3> QED BY <3>1, <3>2
  <2> QED BY <2>1, <2>2, <2>5, <2>6 DEF TextsOK
<1> QED BY <1>11, <1>12, <1>13, <1>15 DEF VoiceInv

LEMMA TranscriptEnds ==
  ASSUME VoiceInv, NEW x \in transcripts, TranscriptionFails(x) \/ TranscriptDropped(x)
  PROVE  VoiceInv'
<1>0. VoiceTypeOK /\ OwnsAll /\ TextsOK
  BY DEF VoiceInv
<1>1. /\ transcripts' = transcripts \ {x} /\ posts' = posts /\ ~(x.pc = "text" /\ Current(x))
  <2>1. x.pc \in {"sent", "text"}
    BY <1>0, TranscriptFields
  <2> QED BY <2>1 DEF TranscriptionFails, TranscriptDropped
<1>2. ThreadsSound /\ ExpectsNoMore /\ TakesNoDevice
  <2>1. CASE TranscriptionFails(x)
    <3>1. x.of \in Voices
      BY <1>0, TranscriptFields
    <3>2. World(x.of) \in Worlds /\ Leads(World(x.of), World(x.of))
      BY <1>0, <3>1, WorldOf
    <3>3. Leads(World(x.of), Fails(World(x.of)))
      BY <3>2, LeadsNearly, FailsLeads
    <3>4. Becomes(Fails(World(x.of)))
      BY <2>1 DEF TranscriptionFails
    <3> QED BY <1>0, <3>1, <3>3, <3>4, CallSound
  <2>2. CASE TranscriptDropped(x)
    BY <1>0, <2>2, RestSound DEF TranscriptDropped
  <2> QED BY <2>1, <2>2
<1>3. TextsOK'
  BY <1>0, <1>1, <1>2, TextsStay
<1>4. transcripts' \subseteq TranscriptType /\ posts' \subseteq PostType
  BY <1>0, <1>1 DEF VoiceTypeOK, TranscriptType, PostType
<1> QED BY <1>2, <1>3, <1>4, SoundStep

-----------------------------------------------------------------------------
(* Voice: every behaviour.                                                 *)

LEMMA VoiceStarts == VoiceInit => VoiceInv
<1> SUFFICES ASSUME VoiceInit PROVE VoiceInv
  OBVIOUS
<1>1. voice \in [Voices -> Controller]
  <2> SUFFICES ASSUME NEW v \in Voices PROVE voice[v] \in Controller
    BY DEF VoiceInit
  <2>1. voice[v] \in [session : Conversations, state : {"idle"}, generation : {0},
          ticket : {0}, conversation : {FALSE}, paused : {FALSE}, busy : {FALSE},
          closed : {FALSE}, pending : {FALSE}, review : {FALSE}, speech : {FALSE}, queue : {0},
          completed : {0}, duplex : BOOLEAN]
    BY DEF VoiceInit
  <2>2. "idle" \in VoiceStates /\ 0 \in Nat /\ FALSE \in BOOLEAN
    BY DEF VoiceStates, Universal
  <2>3. /\ {"idle"} \subseteq VoiceStates /\ {0} \subseteq Nat /\ {FALSE} \subseteq BOOLEAN
    BY <2>2
  <2> DEFINE c == voice[v]
  <2> HIDE DEF c
  <2>4. /\ c.session \in Conversations /\ c.state = "idle" /\ c.generation = 0 /\ c.ticket = 0
        /\ c.conversation = FALSE /\ c.paused = FALSE /\ c.busy = FALSE /\ c.closed = FALSE
        /\ c.pending = FALSE /\ c.review = FALSE /\ c.speech = FALSE /\ c.queue = 0
        /\ c.completed = 0 /\ c.duplex \in BOOLEAN
    BY <2>1 DEF c
  <2>5. c = [session |-> c.session, state |-> c.state, generation |-> c.generation,
             ticket |-> c.ticket, conversation |-> c.conversation, paused |-> c.paused,
             busy |-> c.busy, closed |-> c.closed, pending |-> c.pending, review |-> c.review,
             speech |-> c.speech, queue |-> c.queue, completed |-> c.completed, duplex |-> c.duplex]
    BY <2>1, Zenon DEF c
  <2>6. c \in Controller
    BY <2>2, <2>4, <2>5 DEF Controller
  <2> QED BY <2>6 DEF c
<1>2. \A v \in Voices : voice[v].pending = FALSE
  BY DEF VoiceInit
<1>3. VoiceTypeOK
  BY <1>1 DEF VoiceInit, VoiceTypeOK
<1>4. OwnsAll
  <2> SUFFICES ASSUME NEW v \in Voices PROVE OwnOK(v, voice[v], microphone, workers)
    BY DEF OwnsAll
  <2>1. microphone # v /\ Captures(workers, v) = {}
    BY VoiceConstants DEF VoiceInit, Captures
  <2> QED BY <2>1 DEF OwnOK
<1>5. DevicesShared /\ TextsOK
  BY <1>2 DEF VoiceInit, DevicesShared, Active, TextsOK, OnePlace, Texts
<1> QED BY <1>3, <1>4, <1>5 DEF VoiceInv

LEMMA VoiceSteps == VoiceInv /\ [VoiceNext]_voiceVars => VoiceInv'
<1> SUFFICES ASSUME VoiceInv, [VoiceNext]_voiceVars PROVE VoiceInv'
  OBVIOUS
<1>1. CASE UNCHANGED voiceVars
  <2>0. VoiceTypeOK /\ OwnsAll /\ TextsOK
    BY DEF VoiceInv
  <2>1. ThreadsSound /\ ExpectsNoMore /\ TakesNoDevice
    BY <1>1, <2>0, RestSound DEF voiceVars
  <2>2. TextsOK'
    BY <1>1, <2>0, <2>1, TextsStay DEF voiceVars
  <2> QED BY <1>1, <2>0, <2>1, <2>2, FiledAlready, SoundStep DEF voiceVars
<1>2. ASSUME NEW v \in Voices, ScreenCalls(v) PROVE VoiceInv'
  BY <1>2, ScreenKeeps, ReviewKeeps
<1>3. ASSUME NEW p \in posts, Deliver(p) PROVE VoiceInv'
  BY <1>3, DeliverKeeps
<1>4. ASSUME NEW t \in workers, ThreadStep(t) PROVE VoiceInv'
  BY <1>4, ThreadMoves, BeginsKeeps, SpeechCalls, CaptureEnds, SubmitKeeps DEF ThreadStep, Proceeds
<1>5. ASSUME NEW x \in transcripts,
             Transcribed(x) \/ TranscriptPosted(x) \/ TranscriptionFails(x) \/ TranscriptDropped(x)
      PROVE  VoiceInv'
  BY <1>5, TranscribedKeeps, PostedKeeps, TranscriptEnds
<1> QED BY <1>1, <1>2, <1>3, <1>4, <1>5 DEF VoiceNext

LEMMA VoiceAlways == VoiceSpec => []VoiceInv
<1>1. VoiceInit => VoiceInv
  BY VoiceStarts
<1>2. VoiceInv /\ [VoiceNext]_voiceVars => VoiceInv'
  BY VoiceSteps
<1> QED BY <1>1, <1>2, PTL DEF VoiceSpec

(* Every variable of voice has its type, whatever order the screen, the    *)
(* threads and the event loop take (voice/controller.py).                  *)
THEOREM VoiceTypeCorrect == VoiceSpec => []VoiceTypeOK
<1>1. VoiceInv => VoiceTypeOK
  BY DEF VoiceInv
<1> QED BY <1>1, VoiceAlways, PTL

(* The lease of the microphone (CaptureCoordinator) is held exactly as     *)
(* long as a capture of the present generation is under way, and the two   *)
(* devices are in use at once only where both controllers may.             *)
THEOREM MicrophoneIsOwned == VoiceSpec => []MicrophoneOwned
<1>1. VoiceInv => MicrophoneOwned
  <2> SUFFICES ASSUME VoiceInv PROVE MicrophoneOwned
    OBVIOUS
  <2>1. ASSUME NEW v \in Voices
        PROVE  microphone = v <=> \E t \in workers : t.of = v /\ t.kind = "capture" /\ Live(t)
    <3>1. microphone = v <=> \E t \in Captures(workers, v) : t.number = voice[v].generation
      BY DEF VoiceInv, OwnsAll, OwnOK
    <3> QED BY <3>1 DEF Captures, Live
  <2>2. DevicesShared
    BY DEF VoiceInv
  <2> QED BY <2>1, <2>2 DEF MicrophoneOwned, DevicesShared
<1> QED BY <1>1, VoiceAlways, PTL

(* A text that the screen takes belongs to the session it was spoken in,   *)
(* and a controller that waits for a text has one on its way               *)
(* (_post() and the check of what was posted, voice/controller.py).                 *)
THEOREM TextsArrive == VoiceSpec => []TextArrives
<1>1. VoiceInv => TextArrives
  <2> SUFFICES ASSUME VoiceInv PROVE TextArrives
    OBVIOUS
  <2> DEFINE taken == {p \in posts : p.what = "text" /\ Current(p) /\ p.session = voice[p.of].session}
  <2>0. TextsOK
    BY DEF VoiceInv
  <2>1. \A p \in posts : PostOK(p)
    BY <2>0 DEF TextsOK
  <2>2. \A p \in taken : p.origin = voice[p.of].session
    BY <2>1 DEF PostOK
  <2>3. ASSUME NEW v \in Voices, voice[v].pending
        PROVE  \/ \E p \in taken : p.of = v
               \/ \E x \in transcripts : x.of = v /\ x.pc = "text" /\ Current(x)
    <3>1. Coming(v)
      BY <2>0, <2>3 DEF TextsOK
    <3> QED BY <2>1, <3>1 DEF Coming, Texts, PostOK
  <2> QED BY <2>2, <2>3 DEF TextArrives
<1> QED BY <1>1, VoiceAlways, PTL
-----------------------------------------------------------------------------
(* Voice: nobody waits for ever.  MayProceed is the guard of Proceeds: what *)
(* a thread does that does not fail, where it waits for nobody.            *)
MayProceed(t) ==
  \/ ~Live(t)
  \/ t.pc = "lock" /\ Holds(t.kind) = {}
  \/ t.pc = "begin" /\ ~Waits(t)
  \/ t.pc \in {"recording", "audio", "silence", "leaving", "speaking", "ended", "broken"}
SomebodyProceeds == workers # {} => \E t \in workers : MayProceed(t)

(* Whatever threads wait for the locks of the devices and for the other    *)
(* device, one of them waits for nobody (begin_capture() and               *)
(* begin_speech(), voice/session.py): who waits for a lock waits for a     *)
(* thread that has it, and who has it waits for one that uses the other    *)
(* device, which waits for nobody.                                         *)
THEOREM ThreadsNeverDeadlock == VoiceSpec => []SomebodyProceeds
<1>1. ASSUME VoiceTypeOK, NEW t \in workers, \A u \in workers : ~MayProceed(u)
      PROVE  FALSE
  <2>1. ASSUME NEW u \in workers, u.pc \in {"begin", "recording", "speaking"}
        PROVE  FALSE
    <3>1. u.pc = "begin" /\ Waits(u)
      BY <1>1, <2>1 DEF MayProceed
    <3>2. PICK z \in workers : z.pc \in {"recording", "speaking"}
      BY <3>1 DEF Waits, Active
    <3> QED BY <1>1, <3>2 DEF MayProceed
  <2>2. t.pc \in {"lock", "begin", "recording", "audio", "silence", "leaving", "speaking", "ended",
                  "broken"}
    BY <1>1 DEF VoiceTypeOK, Worker
  <2>3. t.pc = "lock" /\ Holds(t.kind) # {}
    BY <1>1, <2>1, <2>2 DEF MayProceed
  <2>4. PICK u \in workers : u.pc \in {"begin", "recording", "speaking"}
    BY <2>3 DEF Holds
  <2> QED BY <2>1, <2>4
<1>2. VoiceInv => SomebodyProceeds
  BY <1>1 DEF SomebodyProceeds, VoiceInv
<1> QED BY <1>2, VoiceAlways, PTL
=============================================================================
