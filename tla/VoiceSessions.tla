----------------------------- MODULE VoiceSessions -----------------------------
(***************************************************************************)
(* Voice input and output (VoiceController in                              *)
(* firik_agent/voice/controller.py, CaptureCoordinator in                  *)
(* voice/session.py).  Each tab has a controller; its threads record and   *)
(* speak, the event loop transcribes, and whatever they find is posted to  *)
(* the screen.  Nothing waits for a thread that was cancelled: what it     *)
(* brings later is told by its generation.                                 *)
(*                                                                         *)
(* A call of the screen is one step, as only the screen starts something;  *)
(* a thread takes a step between two locks.  Cancelled and of an older     *)
(* generation are the same.  Left out: settings (voice is enabled), the    *)
(* reply that is spoken while it is written (its sentences are spoken one  *)
(* by one), muting (speaking may be refused), levels and texts; executing  *)
(* counts as thinking, a missing permission as an error.                   *)
(***************************************************************************)
EXTENDS Naturals, FiniteSets

CONSTANTS
  Voices,         \* controllers
  Conversations,  \* sessions of the application
  MaxWorkers,     \* threads of a controller
  MaxSentences,   \* sentences that may wait to be spoken
  MaxTurns        \* bound: generations and tickets of a controller that the screen begins

Nobody == "nobody"

ASSUME VoiceConstants ==
  /\ MaxWorkers \in Nat /\ MaxSentences \in Nat /\ MaxTurns \in Nat
  /\ Conversations # {} /\ Nobody \notin Voices

VARIABLES
  voice,        \* the controllers
  microphone,   \* whose lease it is, if anybody's
  workers,      \* threads that record or speak
  transcripts,  \* recordings that are transcribed
  posts         \* what the screen is going to run

voiceVars == <<voice, microphone, workers, transcripts, posts>>

Engaged == {"listening", "detected", "transcribing", "review"}
Universal == {"idle", "disabled", "interrupted", "error"}
VoiceStates == Engaged \cup Universal \cup {"ready", "thinking", "speaking"}

(* _TRANSITIONS, without the states that can always be entered.            *)
Follow ==
  [s \in VoiceStates |->
     CASE s = "disabled"     -> {"ready", "listening", "speaking"}
       [] s = "ready"        -> {"listening", "speaking", "thinking"}
       [] s = "listening"    -> {"detected", "transcribing", "ready"}
       [] s = "detected"     -> {"transcribing", "ready"}
       [] s = "transcribing" -> {"review"}
       [] s = "review"       -> {"thinking", "ready", "transcribing", "speaking", "listening"}
       [] s = "thinking"     -> {"speaking", "ready", "listening"}
       [] s = "speaking"     -> {"ready", "listening", "transcribing", "detected"}
       [] s = "error"        -> {"ready", "listening", "speaking", "transcribing", "thinking"}
       [] OTHER              -> {"ready", "listening", "speaking", "thinking"}]

Controller ==
  [session : Conversations, state : VoiceStates,
   generation : Nat, ticket : Nat,        \* of capture, of speech
   conversation : BOOLEAN, paused : BOOLEAN, busy : BOOLEAN, closed : BOOLEAN,
   pending : BOOLEAN, review : BOOLEAN,   \* a transcript is on its way; is reviewed
   speech : BOOLEAN, queue : Nat,         \* somebody speaks; sentences that wait
   completed : Nat,                       \* generation of the last transcript
   duplex : BOOLEAN]                      \* it may listen while it speaks
(* A worker's, a transcript's and a post's origin is history: the session  *)
(* the user spoke in.                                                      *)
Worker == [of : Voices, kind : {"capture"}, number : Nat, origin : Conversations,
           mode : {"ptt", "conversation"},
           pc : {"lock", "begin", "recording", "audio", "silence", "broken", "leaving"}]
  \cup [of : Voices, kind : {"speech"}, number : Nat,
        pc : {"lock", "begin", "speaking", "ended", "broken"}]

VoiceTypeOK ==
  /\ voice \in [Voices -> Controller]
  /\ microphone \in Voices \cup {Nobody}
  /\ workers \subseteq Worker
  /\ transcripts \subseteq [of : Voices, generation : Nat, origin : Conversations,
                            pc : {"sent", "text"}]
  /\ posts \subseteq [of : Voices, generation : Nat, session : Conversations,
                      origin : Conversations, what : {"text", "resume"}]

VoiceInit ==
  /\ voice \in [Voices -> [session : Conversations, state : {"idle"}, generation : {0},
       ticket : {0}, conversation : {FALSE}, paused : {FALSE}, busy : {FALSE},
       closed : {FALSE}, pending : {FALSE}, review : {FALSE}, speech : {FALSE}, queue : {0},
       completed : {0}, duplex : BOOLEAN]]
  /\ microphone = Nobody /\ workers = {} /\ transcripts = {} /\ posts = {}

-----------------------------------------------------------------------------
(* Pieces of a call: they turn a world, which is what a controller sees,   *)
(* into the next one.                                                      *)

World(v) == [me |-> v, its |-> voice[v], lease |-> microphone, threads |-> workers]
Becomes(w) ==
  /\ voice' = [voice EXCEPT ![w.me] = w.its]
  /\ microphone' = w.lease /\ workers' = w.threads

Released(w) == [w EXCEPT !.lease = IF @ = w.me THEN Nobody ELSE @]
Silenced(w) == [w EXCEPT !.its.speech = FALSE, !.its.queue = 0, !.its.ticket = @ + 1]
Outdated(w) == [w EXCEPT !.its.generation = @ + 1, !.its.pending = FALSE, !.its.review = FALSE]
(* _invalidate_locked(), of speech and capture or of capture alone.        *)
Invalidated(w) == Released(Outdated(Silenced(w)))
InputInvalidated(w) == Released(Outdated(w))

Enters(w, state) ==
  IF state \in Universal \cup {w.its.state} \cup Follow[w.its.state]
  THEN [w EXCEPT !.its.state = state] ELSE w
Fails(w) == Enters([InputInvalidated(w) EXCEPT !.its.paused = w.its.conversation], "error")

HasRoom(w) == Cardinality({t \in w.threads : t.of = w.me}) < MaxWorkers

MayCapture(w, mode, replaces) ==
  /\ ~w.its.closed /\ (replaces \/ ~w.its.pending)
  /\ w.its.state \notin {"listening", "detected", "transcribing"}
  /\ ~(w.its.busy /\ mode = "conversation")
  /\ w.lease \in {Nobody, w.me}

(* _begin_capture(): the lease is claimed before anything is cancelled.    *)
(* Here and in speak() the code lets go of its lock before it shows the    *)
(* state and before it starts the thread; the model joins these pieces.    *)
BeginsCapture(w, mode, keepSpeech, replaces) ==
  LET cancelled == Outdated(IF keepSpeech THEN w ELSE Silenced(w))
      listens == Enters([cancelled EXCEPT !.lease = w.me], "listening")
      capture == [of |-> w.me, kind |-> "capture", number |-> listens.its.generation,
                  origin |-> w.its.session, mode |-> mode, pc |-> "lock"] IN
  IF ~MayCapture(w, mode, replaces) THEN w
  ELSE IF HasRoom(w) THEN [listens EXCEPT !.threads = @ \cup {capture}]
  ELSE Fails(listens)

ResumesIfNeeded(w) ==
  IF /\ w.its.conversation /\ ~w.its.paused /\ ~w.its.busy /\ ~w.its.review
     /\ w.its.speech => w.its.duplex
  THEN BeginsCapture(w, "conversation", w.its.speech, FALSE) ELSE w

StopsSpeaking(w) ==
  IF ~w.its.speech THEN w
  ELSE IF w.its.state = "speaking" THEN ResumesIfNeeded(Enters(Silenced(w), "idle"))
  ELSE Silenced(w)

MaySpeak(w) ==
  /\ ~w.its.closed /\ ~w.its.pending
  /\ w.its.state \notin {"listening", "detected", "transcribing"}
  /\ w.its.speech => w.its.queue < MaxSentences

Speaks(w) ==
  LET speaks == Enters([Invalidated(w) EXCEPT !.its.speech = TRUE], "speaking")
      stopped == StopsSpeaking(speaks)
      speech == [of |-> w.me, kind |-> "speech", number |-> speaks.its.ticket, pc |-> "lock"]
      started == [speaks EXCEPT !.threads = @ \cup {speech}] IN
  IF w.its.speech THEN [w EXCEPT !.its.queue = @ + 1]
  ELSE IF ~HasRoom(w) THEN
    IF stopped.its.generation = speaks.its.generation THEN Fails(stopped) ELSE stopped
  ELSE IF started.its.conversation /\ ~started.its.paused /\ started.its.duplex
    THEN BeginsCapture(started, "conversation", TRUE, FALSE) ELSE started

Cancels(w) ==
  Enters([Invalidated(w) EXCEPT !.its.conversation = FALSE, !.its.paused = FALSE], "idle")

Thinks(w) ==
  LET busy == [w EXCEPT !.its.busy = TRUE]
      quiet == IF w.its.state \in {"listening", "detected", "transcribing"}
               THEN Enters(Invalidated(busy), "interrupted") ELSE busy IN
  Enters([quiet EXCEPT !.its.review = FALSE], "thinking")

-----------------------------------------------------------------------------
(* The screen.                                                             *)

Room(v) == voice[v].generation + voice[v].ticket < MaxTurns
Call(v, w) == ~voice[v].closed /\ Room(v) /\ Becomes(w) /\ UNCHANGED <<transcripts, posts>>

(* RebindOnly (for mutation): what is under way goes on.                   *)
RebindOnly(v, s) ==
  /\ s # voice[v].session
  /\ Call(v, [World(v) EXCEPT !.its.busy = FALSE, !.its.session = s])

BindSession(v, s) ==
  /\ s # voice[v].session
  /\ Call(v, [Cancels(World(v)) EXCEPT !.its.busy = FALSE, !.its.session = s])

SyncAgentState(v, busy) ==
  LET w == [World(v) EXCEPT !.its.busy = busy]
      shown == IF busy THEN "thinking"
               ELSE IF w.its.conversation /\ w.its.paused THEN "interrupted" ELSE "idle" IN
  Call(v, IF w.its.state \in Engaged \cup {"speaking"} THEN w ELSE Enters(w, shown))

StartRecording(v) == Call(v, BeginsCapture(World(v), "ptt", FALSE, FALSE))

RetryTranscription(v) ==
  /\ voice[v].state \in {"review", "error"}
  /\ Call(v, BeginsCapture(World(v), "ptt", FALSE, TRUE))

StartConversation(v) ==
  LET w == [World(v) EXCEPT !.its.conversation = TRUE, !.its.paused = FALSE]
      begun == BeginsCapture(w, "conversation", FALSE, FALSE) IN
  /\ ~voice[v].conversation
  /\ Call(v, IF begun.threads # workers THEN begun
             ELSE [begun EXCEPT !.its.conversation = FALSE])

Pauses(w) == Enters([InputInvalidated(w) EXCEPT !.its.paused = TRUE], "interrupted")
PauseConversation(v) == voice[v].conversation /\ Call(v, Pauses(World(v)))

ResumeConversation(v) ==
  LET w == [World(v) EXCEPT !.its.paused = FALSE]
      begun == BeginsCapture(w, "conversation", FALSE, FALSE) IN
  /\ voice[v].conversation /\ voice[v].paused
  /\ Call(v, IF w.its.busy THEN Enters(w, "thinking")
             ELSE IF begun.threads # workers THEN begun
             ELSE [begun EXCEPT !.its.paused = TRUE])

StopListening(v) ==
  /\ ~voice[v].conversation /\ voice[v].state # "speaking"
  /\ Call(v, Enters(InputInvalidated(World(v)), "idle"))

CancelVoice(v) == Call(v, Cancels(World(v)))

(* The screen shows the transcript, which is sent or given up.             *)
TranscriptResolved(v, submitted) ==
  LET w == [World(v) EXCEPT !.its.review = FALSE] IN
  /\ voice[v].review /\ ~voice[v].pending
  /\ Call(v, IF submitted THEN Enters([w EXCEPT !.its.busy = TRUE], "thinking")
             ELSE ResumesIfNeeded(Enters(w, "ready")))

(* A text that was typed is reviewed like a transcript.                    *)
ReviewText(v) ==
  LET w == [Invalidated(World(v)) EXCEPT !.its.pending = TRUE, !.its.review = TRUE,
                                         !.its.state = "review"] IN
  /\ ~voice[v].closed /\ Room(v) /\ ~voice[v].review /\ ~voice[v].pending
  /\ Becomes(w)
  /\ posts' = posts \cup {[of |-> v, generation |-> w.its.generation, what |-> "text",
                           session |-> voice[v].session, origin |-> voice[v].session]}
  /\ UNCHANGED transcripts

ResponseStarted(v) == Call(v, Thinks(StopsSpeaking(World(v))))
MarkAgentState(v) == Call(v, Thinks(World(v)))

ResponseCompleted(v, spoken) ==
  LET w == [World(v) EXCEPT !.its.busy = FALSE]
      ready == Enters(w, "ready") IN
  Call(v, IF w.its.speech \/ w.its.state \in Engaged THEN w
          ELSE IF spoken /\ MaySpeak(ready) THEN Speaks(ready)
          ELSE ResumesIfNeeded(ready))

SpeakText(v) == MaySpeak(World(v)) /\ Call(v, Speaks(World(v)))
StopSpeaking(v) == voice[v].speech /\ Call(v, StopsSpeaking(World(v)))

CloseVoice(v) ==
  LET w == Invalidated(World(v)) IN
  Call(v, [w EXCEPT !.its.conversation = FALSE, !.its.paused = FALSE,
                    !.its.state = "disabled", !.its.closed = TRUE])

Current(x) == x.generation = voice[x.of].generation

(* What was posted runs if it is of this generation and this session.      *)
Deliver(p) ==
  LET w == World(p.of) IN
  /\ p \in posts /\ Room(p.of)
  /\ posts' = posts \ {p}
  /\ Becomes(IF ~Current(p) \/ p.session # w.its.session THEN w
             ELSE IF p.what = "text" THEN [w EXCEPT !.its.pending = FALSE]
             ELSE ResumesIfNeeded(w))
  /\ UNCHANGED transcripts

-----------------------------------------------------------------------------
(* A thread.  It leaves when it finds itself outdated.                     *)

Live(t) == t.number = IF t.kind = "capture" THEN voice[t.of].generation ELSE voice[t.of].ticket
Holds(kind) == {t \in workers : t.kind = kind /\ t.pc \in {"begin", "recording", "speaking"}}
Active(pc) == {t \in workers : t.pc = pc}
Threads(t, pc) == workers' = (workers \ {t}) \cup {[t EXCEPT !.pc = pc]}
(* The call of a thread, after which it is at pc, or gone.                 *)
ThreadCall(t, w, pc) ==
  /\ voice' = [voice EXCEPT ![t.of] = w.its]
  /\ microphone' = w.lease
  /\ IF pc = "gone" THEN workers' = workers \ {t} ELSE Threads(t, pc)
Posts(t, w) ==
  posts' = posts \cup {[of |-> t.of, generation |-> w.its.generation, what |-> "resume",
                       session |-> w.its.session, origin |-> w.its.session]}

GivesUp(t) ==
  /\ ~Live(t) /\ workers' = workers \ {t}
  /\ UNCHANGED <<voice, microphone, transcripts, posts>>

EntersLock(t) ==
  /\ t.pc = "lock" /\ Live(t) /\ Holds(t.kind) = {}
  /\ Threads(t, "begin")
  /\ UNCHANGED <<voice, microphone, transcripts, posts>>

(* begin_capture() and begin_speech(): a device waits for the other one,   *)
(* but where both may be used at once.                                     *)
(* WaitsForLock (for mutation): it waits for whoever has the other lock.   *)
WaitsForLock(t) ==
  \E other \in {"capture", "speech"} \ {t.kind} : \E u \in Holds(other) :
    ~(voice[t.of].duplex /\ voice[u.of].duplex)
Waits(t) ==
  \E u \in Active("recording") \cup Active("speaking") :
    u.kind # t.kind /\ ~(voice[t.of].duplex /\ voice[u.of].duplex)

Begins(t) ==
  /\ t.pc = "begin" /\ Live(t) /\ ~Waits(t)
  /\ Threads(t, IF t.kind = "capture" THEN "recording" ELSE "speaking")
  /\ UNCHANGED <<voice, microphone, transcripts, posts>>

Breaks(t) ==
  /\ t.pc \in {"begin", "recording", "speaking"} /\ Live(t)
  /\ Threads(t, "broken")
  /\ UNCHANGED <<voice, microphone, transcripts, posts>>

(* The user starts to talk, and interrupts what is spoken.                 *)
SpeechStarted(t) ==
  LET w == World(t.of) IN
  /\ t.pc = "recording" /\ t.mode = "conversation" /\ Live(t)
  /\ Becomes(Enters(IF w.its.duplex /\ w.its.speech THEN Silenced(w) ELSE w, "detected"))
  /\ UNCHANGED <<transcripts, posts>>

Recorded(t) ==
  /\ t.pc = "recording" /\ Live(t)
  /\ \/ Threads(t, "audio")
     \/ t.mode = "conversation" /\ Threads(t, "silence")
  /\ UNCHANGED <<voice, microphone, transcripts, posts>>

SubmitTranscription(t) ==
  /\ t.pc = "audio" /\ Live(t)
  /\ ThreadCall(t, Enters(World(t.of), "transcribing"), "leaving")
  /\ transcripts' = transcripts \cup
       {[of |-> t.of, generation |-> t.number, origin |-> t.origin, pc |-> "sent"]}
  /\ UNCHANGED posts

Silence(t) ==
  LET w == Enters(World(t.of), "ready") IN
  /\ t.pc = "silence" /\ Live(t)
  /\ ThreadCall(t, w, "leaving") /\ Posts(t, w)
  /\ UNCHANGED transcripts

(* It was no usable recording, or none at all.                             *)
CaptureFails(t) ==
  /\ t.kind = "capture" /\ t.pc \in {"audio", "broken"} /\ Live(t)
  /\ ThreadCall(t, Fails(World(t.of)), "gone")
  /\ UNCHANGED <<transcripts, posts>>

(* LeavesAnyway (for mutation): an older capture gives the lease back.     *)
LeavesAnyway(t) ==
  /\ t.pc = "leaving"
  /\ ThreadCall(t, Released(World(t.of)), "gone")
  /\ UNCHANGED <<transcripts, posts>>

(* Only a capture of the present generation gives the lease back.          *)
CaptureLeaves(t) ==
  /\ t.pc = "leaving" /\ Live(t)
  /\ ThreadCall(t, Released(World(t.of)), "gone")
  /\ UNCHANGED <<transcripts, posts>>

Spoken(t) ==
  LET w == World(t.of) IN
  /\ t.pc = "speaking" /\ Live(t)
  /\ IF w.its.queue > 0 THEN ThreadCall(t, [w EXCEPT !.its.queue = @ - 1], "speaking")
                        ELSE ThreadCall(t, [w EXCEPT !.its.speech = FALSE], "ended")
  /\ UNCHANGED <<transcripts, posts>>

SpeechEnds(t) ==
  LET w == [World(t.of) EXCEPT !.its.speech = FALSE]
      rests == Enters(w, IF w.its.conversation THEN "ready" ELSE "idle") IN
  /\ t.pc = "ended" /\ Live(t)
  /\ IF w.its.state \in Engaged THEN ThreadCall(t, w, "gone") /\ UNCHANGED posts
     ELSE ThreadCall(t, rests, "gone") /\ Posts(t, rests)
  /\ UNCHANGED transcripts

SpeechFails(t) ==
  LET w == [World(t.of) EXCEPT !.its.speech = FALSE, !.its.queue = 0]
      fails == Enters([w EXCEPT !.its.paused = w.its.conversation], "error") IN
  /\ t.kind = "speech" /\ t.pc = "broken" /\ Live(t)
  /\ ThreadCall(t, IF w.its.state = "speaking" THEN fails ELSE w, "gone")
  /\ UNCHANGED <<transcripts, posts>>

Proceeds(t) ==
  \/ GivesUp(t) \/ EntersLock(t) \/ Begins(t) \/ SpeechStarted(t) \/ Recorded(t)
  \/ SubmitTranscription(t) \/ Silence(t) \/ CaptureFails(t) \/ CaptureLeaves(t)
  \/ Spoken(t) \/ SpeechEnds(t) \/ SpeechFails(t)
ThreadStep(t) == Breaks(t) \/ Proceeds(t)

-----------------------------------------------------------------------------
(* The event loop transcribes.                                             *)

Awaited(x) ==
  Current(x) /\ voice[x.of].state = "transcribing" /\ voice[x.of].completed # x.generation

Transcribed(x) ==
  /\ x.pc = "sent" /\ Awaited(x)
  /\ voice' = [voice EXCEPT ![x.of].completed = x.generation, ![x.of].pending = TRUE,
                            ![x.of].review = TRUE]
  /\ transcripts' = (transcripts \ {x}) \cup {[x EXCEPT !.pc = "text"]}
  /\ UNCHANGED <<microphone, workers, posts>>

TranscriptPosted(x) ==
  LET w == Enters(World(x.of), "review") IN
  /\ x.pc = "text" /\ Current(x)
  /\ Becomes(w)
  /\ posts' = IF w.its.state # "review" THEN posts ELSE
       posts \cup {[of |-> x.of, generation |-> x.generation, what |-> "text",
                   session |-> w.its.session, origin |-> x.origin]}
  /\ transcripts' = transcripts \ {x}

TranscriptionFails(x) ==
  /\ x.pc = "sent" /\ Current(x)
  /\ Becomes(Fails(World(x.of)))
  /\ transcripts' = transcripts \ {x}
  /\ UNCHANGED posts

TranscriptDropped(x) ==
  /\ IF x.pc = "sent" THEN ~Awaited(x) ELSE ~Current(x)
  /\ transcripts' = transcripts \ {x}
  /\ UNCHANGED <<voice, microphone, workers, posts>>

-----------------------------------------------------------------------------
ScreenCalls(v) ==
  \/ \E s \in Conversations : BindSession(v, s)
  \/ \E b \in BOOLEAN : SyncAgentState(v, b) \/ TranscriptResolved(v, b) \/ ResponseCompleted(v, b)
  \/ StartRecording(v) \/ RetryTranscription(v) \/ StartConversation(v) \/ PauseConversation(v)
  \/ ResumeConversation(v) \/ StopListening(v) \/ CancelVoice(v) \/ ReviewText(v)
  \/ ResponseStarted(v) \/ MarkAgentState(v) \/ SpeakText(v) \/ StopSpeaking(v) \/ CloseVoice(v)

VoiceNext ==
  \/ \E v \in Voices : ScreenCalls(v)
  \/ \E p \in posts : Deliver(p)
  \/ \E t \in workers : ThreadStep(t)
  \/ \E x \in transcripts : Transcribed(x) \/ TranscriptPosted(x) \/ TranscriptionFails(x)
                           \/ TranscriptDropped(x)

VoiceSpec == VoiceInit /\ [][VoiceNext]_voiceVars

-----------------------------------------------------------------------------
(* A text that the screen will take is of the session it was spoken in,    *)
(* and a controller that waits for a text, and neither listens nor speaks  *)
(* until it comes, has one on its way.                                     *)
TextArrives ==
  LET taken == {p \in posts : p.what = "text" /\ Current(p) /\ p.session = voice[p.of].session} IN
  /\ \A p \in taken : p.origin = voice[p.of].session
  /\ \A v \in Voices : voice[v].pending =>
       \/ \E p \in taken : p.of = v
       \/ \E x \in transcripts : x.of = v /\ x.pc = "text" /\ Current(x)

(* The lease of the microphone is held exactly as long as a capture that   *)
(* was not cancelled is under way, whatever older captures do when they    *)
(* end: nobody records without it, and nobody keeps it from the others.    *)
(* A device that is in use at the same time as the other one is so by      *)
(* controllers that may ("supports_barge_in").                             *)
MicrophoneOwned ==
  /\ \A v \in Voices :
       microphone = v <=> \E t \in workers : t.of = v /\ t.kind = "capture" /\ Live(t)
  /\ \A t \in Active("recording"), u \in Active("speaking") :
       voice[t.of].duplex /\ voice[u.of].duplex

(* Threads that wait for the locks of the devices, and for the other       *)
(* device, never wait for each other: while there are any, one can move    *)
(* without anything failing.                                               *)
ThreadsMove == workers # {} => ENABLED \E t \in workers : Proceeds(t)
=============================================================================
