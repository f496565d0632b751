------------------------------ MODULE LiveSteer ------------------------------
(***************************************************************************)
(* Steering: a message typed or spoken to the agent, outside any session.  *)
(* The tab locks its field until the message is done, failed, or two       *)
(* minutes have passed; the answer to its request and the agent's events   *)
(* come by two channels.  Speech goes to this field or to the one of the   *)
(* bar that configures a request, and sends what it heard when it ends.    *)
(*                                                                         *)
(* Left out: the words, the focus and the looks of the field, and a reload *)
(* of the page, which forgets the field.  External: the server, the agent  *)
(* and the browser's speech recognition.                                   *)
(***************************************************************************)
EXTENDS Naturals, Sequences

CONSTANTS
  Messages,      \* what a user may want to say
  MaxSteers      \* bound: requests

ASSUME SteerAssumption == "none" \notin Messages /\ MaxSteers \in Nat

VARIABLES
  chat,        \* the field
  voice,       \* speech recognition
  bar,         \* state, as far as the two fields see it, and the words in the bar's field
  steers,      \* the requests, each with where it is and what the tab hears of its POST
  replies,     \* events on their way
  dropped,     \* history: messages done, and messages the user deleted
  mixed        \* history: what happened of Mixed

tvars == <<chat, voice, bar, steers, replies, dropped, mixed>>

Texts == Messages \cup {"none"}
Steers == 1 .. MaxSteers

\* request: steerRequestId, 0 for none; await: the request the timer is for.
Chat == [locked : BOOLEAN, request : 0 .. MaxSteers, await : 0 .. MaxSteers, input : Texts, pending : Texts]

\* engine: voiceRecognition; detached: the field that is spoken to is no longer shown; spoken: a
\* detached field has words.
Voice ==
  [ctx : {"none", "steer", "configure"}, engine : BOOLEAN, listening : BOOLEAN,
   detached : BOOLEAN, spoken : BOOLEAN]
Silent == [ctx |-> "none", engine |-> FALSE, listening |-> FALSE,
           detached |-> FALSE, spoken |-> FALSE]

\* late: a request was given up, and its POST failed after another was sent.  wordless: a spoken
\* request was sent without its words.
Mixed == {"late", "wordless"}

SteerTypeOK ==
  /\ chat \in Chat /\ voice \in Voice
  /\ bar \in [mode : {"PICKING", "CONFIGURING", "GENERATING"}, words : BOOLEAN]
  /\ steers \in Seq([text : Messages, at : {"posted", "lost", "queued", "working", "replied"},
                     answer : {"waits", "ok", "failed", "heard"}])
  /\ Len(steers) <= MaxSteers
  /\ replies \subseteq [steer : Steers, type : {"steer_done", "error"}]
  /\ dropped \subseteq Messages /\ mixed \subseteq Mixed

SteerInit ==
  /\ chat = [locked |-> FALSE, request |-> 0, await |-> 0, input |-> "none", pending |-> "none"]
  /\ voice = Silent /\ bar = [mode |-> "PICKING", words |-> FALSE]
  /\ steers = << >> /\ replies = {} /\ dropped = {} /\ mixed = {}

----------------------------------------------------------------------------
(* Parts of the handlers.                                                  *)

\* stopVoice: releaseVoiceEngine takes the engine's handlers away, so it submits nothing.
StopVoice == Silent

\* unlockSteerChat: restored goes back to the field; "none" if the message is done.
UnlockChat(c, restored) ==
  [locked |-> FALSE, request |-> 0, await |-> 0, input |-> restored, pending |-> restored]

\* submitSteerMessage, lockSteerChat, scheduleSteerAwaitTimeout
Submit ==
  /\ chat.input # "none" /\ ~chat.locked /\ Len(steers) < MaxSteers
  /\ LET n == Len(steers) + 1
     IN /\ steers' = Append(steers, [text |-> chat.input, at |-> "posted", answer |-> "waits"])
        /\ chat' = [chat EXCEPT !.locked = TRUE, !.request = n, !.await = n, !.pending = chat.input]

\* handleGo: what is in the bar's field goes with it.
Go == bar' = [mode |-> "GENERATING", words |-> FALSE]

----------------------------------------------------------------------------
(* The user.                                                               *)

Type(m) ==
  /\ ~chat.locked /\ chat.input = "none" /\ m \notin dropped
  /\ \A r \in 1 .. Len(steers) : steers[r].text # m
  /\ chat' = [chat EXCEPT !.input = m]
  /\ UNCHANGED <<voice, bar, steers, replies, dropped, mixed>>

\* Escape in the field.
Erase ==
  /\ ~chat.locked /\ chat.input # "none"
  /\ chat' = [chat EXCEPT !.input = "none"] /\ dropped' = dropped \cup {chat.input}
  /\ UNCHANGED <<voice, bar, steers, replies, mixed>>

Send ==
  /\ Submit /\ voice' = StopVoice
  /\ UNCHANGED <<bar, replies, dropped, mixed>>

\* An element is picked; another is picked with the arrow keys, which builds the bar again; words
\* are typed; Go; the bar is left.
UseBar ==
  /\ \/ bar.mode # "CONFIGURING" /\ bar' = [mode |-> "CONFIGURING", words |-> FALSE] /\ UNCHANGED voice
     \/ /\ bar.mode = "CONFIGURING" /\ bar' = [bar EXCEPT !.words = FALSE]
        /\ voice' = [voice EXCEPT !.detached = @ \/ voice.ctx = "configure",
                                  !.spoken = @ \/ (voice.ctx = "configure" /\ bar.words)]
     \/ bar.mode = "CONFIGURING" /\ bar' = [bar EXCEPT !.words = TRUE] /\ UNCHANGED voice
     \/ bar.mode = "CONFIGURING" /\ Go /\ voice' = StopVoice
     \/ bar.mode = "CONFIGURING" /\ bar' = [mode |-> "PICKING", words |-> FALSE] /\ voice' = StopVoice
  /\ UNCHANGED <<chat, steers, replies, dropped, mixed>>

\* The agent's variants come, and the session ends.
SessionOver ==
  /\ bar.mode = "GENERATING" /\ bar' = [bar EXCEPT !.mode = "PICKING"] /\ voice' = StopVoice
  /\ UNCHANGED <<chat, steers, replies, dropped, mixed>>

\* What was begun before and has not started to listen is given up.
StartVoice(ctx) ==
  /\ ~voice.listening
  /\ IF ctx = "steer" THEN ~chat.locked /\ bar.mode # "CONFIGURING" ELSE bar.mode = "CONFIGURING"
  /\ voice' = [Silent EXCEPT !.ctx = ctx, !.engine = TRUE]

\* toggleSteerVoice, toggleConfigureVoice
ToggleVoice(ctx) ==
  /\ \/ voice.listening /\ voice.ctx = ctx /\ voice' = StopVoice
     \/ StartVoice(ctx)
  /\ UNCHANGED <<chat, bar, steers, replies, dropped, mixed>>

----------------------------------------------------------------------------
(* Speech recognition.                                                     *)

\* onstart, onerror
VoiceStarts ==
  /\ voice.engine /\ ~voice.listening
  /\ voice' = [voice EXCEPT !.listening = TRUE]
  /\ UNCHANGED <<chat, bar, steers, replies, dropped, mixed>>

VoiceFails ==
  /\ voice.engine /\ voice' = StopVoice
  /\ UNCHANGED <<chat, bar, steers, replies, dropped, mixed>>

\* onresult: after the words that were there.
Heard(m) ==
  /\ voice.listening
  /\ CASE voice.ctx = "steer" ->
            /\ chat.input = "none" /\ m \notin dropped
            /\ \A r \in 1 .. Len(steers) : steers[r].text # m
            /\ chat' = [chat EXCEPT !.input = m] /\ UNCHANGED <<voice, bar>>
       [] voice.ctx = "configure" /\ voice.detached -> voice' = [voice EXCEPT !.spoken = TRUE] /\ UNCHANGED <<chat, bar>>
       [] OTHER -> bar' = [bar EXCEPT !.words = TRUE] /\ UNCHANGED <<chat, voice>>
  /\ UNCHANGED <<steers, replies, dropped, mixed>>

\* finishVoiceSession: what was heard is sent, by what the bar's field holds now.
VoiceEnds ==
  /\ voice.engine
  /\ IF voice.ctx = "steer" /\ ~chat.locked /\ chat.input # "none" /\ Len(steers) < MaxSteers
     THEN Submit /\ voice' = StopVoice /\ UNCHANGED <<bar, mixed>>
     ELSE IF voice.ctx = "configure" /\ bar.mode = "CONFIGURING"
             /\ (IF voice.detached THEN voice.spoken ELSE bar.words)
     THEN /\ Go /\ voice' = StopVoice /\ UNCHANGED <<chat, steers>>
          /\ mixed' = mixed \cup IF bar.words THEN {} ELSE {"wordless"}
     ELSE voice' = Silent /\ UNCHANGED <<chat, steers, bar, mixed>>
  /\ UNCHANGED <<replies, dropped>>

----------------------------------------------------------------------------
(* Answers, events and the timer.                                          *)

\* The end of submitSteerMessage: a failure unlocks the field for whichever request holds it.
PostAnswered(r) ==
  /\ steers[r].answer \in {"ok", "failed"}
  /\ steers' = [steers EXCEPT ![r].answer = "heard"]
  /\ IF steers[r].answer = "ok" THEN UNCHANGED <<chat, mixed>>
     ELSE /\ chat' = UnlockChat(chat, steers[r].text)
          /\ mixed' = mixed \cup IF chat.request = r THEN {} ELSE {"late"}
  /\ UNCHANGED <<voice, bar, replies, dropped>>

\* Mutant of AwaitOver: the message is not put back.
AwaitOverForgetting ==
  /\ chat.await # 0 /\ chat' = UnlockChat(chat, "none")
  /\ UNCHANGED <<voice, bar, steers, replies, dropped, mixed>>

\* Two minutes are over.
AwaitOver ==
  /\ chat.await # 0 /\ chat.locked /\ chat.request = chat.await
  /\ chat' = UnlockChat(chat, chat.pending)
  /\ UNCHANGED <<voice, bar, steers, replies, dropped, mixed>>

\* maybeCompleteSteer; the error of a request that was given up goes on as any other.
SteerReplied(e) ==
  /\ e \in replies /\ replies' = replies \ {e}
  /\ chat' = CASE chat.request # e.steer -> chat
               [] chat.request = e.steer /\ e.type = "steer_done" -> UnlockChat(chat, "none")
               [] OTHER -> UnlockChat(chat, chat.pending)
  /\ dropped' = dropped \cup
       IF chat.request = e.steer /\ e.type = "steer_done" THEN {steers[e.steer].text} ELSE {}
  /\ IF chat.request # e.steer /\ e.type = "error"
     THEN bar' = [mode |-> "PICKING", words |-> FALSE] /\ voice' = StopVoice
     ELSE UNCHANGED <<bar, voice>>
  /\ UNCHANGED <<steers, mixed>>

----------------------------------------------------------------------------
(* The server and the agent.                                               *)

PostArrives(r) ==
  /\ steers[r].at = "posted" /\ steers' = [steers EXCEPT ![r].at = "queued", ![r].answer = "ok"]
  /\ UNCHANGED <<chat, voice, bar, replies, dropped, mixed>>

\* The request, or only its answer, is lost.
PostFails(r) ==
  /\ steers[r].answer \in {"waits", "ok"}
  /\ steers' = [steers EXCEPT ![r].at = IF @ = "posted" THEN "lost" ELSE @, ![r].answer = "failed"]
  /\ UNCHANGED <<chat, voice, bar, replies, dropped, mixed>>

\* The agent takes one request at a time, and not while it generates.
AgentWorks(r) ==
  /\ \/ /\ steers[r].at = "queued" /\ bar.mode # "GENERATING"
        /\ \A q \in 1 .. Len(steers) : steers[q].at # "working"
        /\ steers' = [steers EXCEPT ![r].at = "working"] /\ UNCHANGED replies
     \/ /\ steers[r].at = "working"
        /\ steers' = [steers EXCEPT ![r].at = "replied"]
        /\ \E t \in {"steer_done", "error"} : replies' = replies \cup {[steer |-> r, type |-> t]}
  /\ UNCHANGED <<chat, voice, bar, dropped, mixed>>

SteerNext ==
  \/ Erase \/ Send \/ UseBar \/ SessionOver \/ VoiceStarts \/ VoiceFails \/ VoiceEnds \/ AwaitOver
  \/ \E m \in Messages : Type(m) \/ Heard(m)
  \/ \E ctx \in {"steer", "configure"} : ToggleVoice(ctx)
  \/ \E e \in replies : SteerReplied(e)
  \/ \E r \in 1 .. Len(steers) : PostAnswered(r) \/ PostArrives(r) \/ PostFails(r) \/ AgentWorks(r)

SteerSpec == SteerInit /\ [][SteerNext]_tvars

----------------------------------------------------------------------------
(* Properties.                                                             *)

\* A message that was sent is not lost: it is under way, done, or back in the field for another
\* try, whichever of its answer, its event and the timer came first, unless the POST of an older
\* request failed late and unlocked the field for this one (submitSteerMessage, "your message was
\* not lost" at steerTimeoutMessage).
NothingTypedIsLost ==
  "late" \notin mixed =>
    \A r \in 1 .. Len(steers) :
      steers[r].text \in dropped \cup {chat.input} \cup (IF chat.locked THEN {chat.pending} ELSE {})
=============================================================================
