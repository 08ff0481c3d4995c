---------------------------- MODULE AssistantChats ----------------------------
(***************************************************************************)
(* The assistant panel of the web console: conversations in the memory of  *)
(* each tab's panel and in the browser's one localStorage, and the answers *)
(* that are streamed into them (components/AssistantPanel.tsx, lib/        *)
(* assistantChatsStorage.ts; on the server services/llm_openai.py).        *)
(***************************************************************************)
EXTENDS Naturals, FiniteSets, SequencesExt

CONSTANTS
  Tabs,           \* tabs of the browser, with a panel each
  Chats,          \* ids of conversations
  NoChat,         \* no conversation
  MaxChats,       \* MAX_THREADS
  MaxMessages,    \* MAX_MSGS
  MaxRounds,      \* COPILOT_MAX_TOOL_ROUNDS
  MaxQuestions    \* bound on what users ask

ASSUME LimitsAssumption == /\ MaxChats \in Nat \ {0} /\ MaxMessages \in Nat \ {0}
                           /\ MaxRounds \in Nat \ {0} /\ MaxQuestions \in Nat
ASSUME NoChatAssumption == NoChat \notin Chats

VARIABLES
  storage,    \* localStorage: the conversations, or Nothing
  panel,      \* the state of each tab's panel, or Closed
  run,        \* runAssistant of each open panel
  asked       \* questions so far, over all tabs

vars == <<storage, panel, run, asked>>

-----------------------------------------------------------------------------
(* A message names the question it is or answers. *)
Questions == 1..MaxQuestions
Texts == {"blank", "part", "whole"}
User(q) == [role |-> "user", of |-> q, text |-> "whole"]
Assistant(q, text) == [role |-> "assistant", of |-> q, text |-> text]
Message == [role : {"user", "assistant"}, of : Questions, text : Texts]

(* A store: the conversations as the array has them, and by updatedAt with the
   newest first; their messages; those that have a title; the one that is shown. *)
IsStore(s) == /\ \A o \in {s.order, s.recent} : o \in Seq(Chats) /\ IsInjective(o)
              /\ ToSet(s.recent) = ToSet(s.order)
              /\ DOMAIN s.msgs = ToSet(s.order)
              /\ \A t \in DOMAIN s.msgs : s.msgs[t] \in Seq(Message)
              /\ s.named \subseteq ToSet(s.order)
              /\ s.active \in ToSet(s.order)

NoStore == [order |-> <<>>, recent |-> <<>>, msgs |-> <<>>, named |-> {}, active |-> NoChat]
Closed == [store |-> NoStore, pending |-> FALSE, titling |-> {}]
Open(p) == panel[p] # Closed

Run == [stage : {"none", "streaming", "fallback"}, chat : Chats \cup {NoChat}, of : 0..MaxQuestions,
        base : Seq(Message),    \* withUser: the conversation up to the question
        said : Texts, round : 0..MaxRounds]
NoRun == [stage |-> "none", chat |-> NoChat, of |-> 0, base |-> <<>>, said |-> "blank", round |-> 0]

TypeOK == /\ storage = NoStore \/ (IsStore(storage) /\ Len(storage.order) <= MaxChats)
          /\ DOMAIN panel = Tabs /\ DOMAIN run = Tabs
          /\ \A p \in Tabs : /\ Open(p) => IsStore(panel[p].store)
                             /\ panel[p].pending \in BOOLEAN /\ panel[p].titling \subseteq Chats
                             /\ run[p] \in Run
          /\ asked \in 0..MaxQuestions

-----------------------------------------------------------------------------
(* trimMessages and trimThreads. *)
TrimMsgs(m) == IF Len(m) <= MaxMessages THEN m ELSE SubSeq(m, Len(m) - MaxMessages + 1, Len(m))

(* Mutant: the limit keeps the head of the array, where new conversations are. *)
Trimmed_Head(s) ==
  LET kept == IF Len(s.order) <= MaxChats THEN s.order ELSE SubSeq(s.order, 1, MaxChats)
  IN [order |-> kept, recent |-> SelectSeq(s.recent, LAMBDA t : t \in ToSet(kept)),
      msgs |-> [t \in ToSet(kept) |-> TrimMsgs(s.msgs[t])], named |-> s.named \cap ToSet(kept),
      active |-> IF s.active \in ToSet(kept) THEN s.active ELSE kept[1]]

(* saveAssistantChats: what storage gets; load trims the same way. *)
Trimmed(s) ==
  LET fits == Len(s.order) <= MaxChats
      kept == IF fits THEN s.order ELSE SubSeq(s.recent, 1, MaxChats)
  IN [order |-> kept, recent |-> IF fits THEN s.recent ELSE kept,
      msgs |-> [t \in ToSet(kept) |-> TrimMsgs(s.msgs[t])], named |-> s.named \cap ToSet(kept),
      active |-> IF s.active \in ToSet(kept) THEN s.active ELSE kept[1]]

(* emptyThread: a conversation with an id nobody has. *)
Unused == Chats \ (ToSet(storage.order) \cup UNION {ToSet(panel[p].store.order) : p \in Tabs}
                   \cup {run[p].chat : p \in Tabs})
Fresh(t) == [order |-> <<t>>, recent |-> <<t>>, msgs |-> [u \in {t} |-> <<>>], named |-> {}, active |-> t]

(* setStore, and the effect that saves after it: the whole store is written. *)
SetStore(p, s) == storage' = Trimmed(s) /\ panel' = [panel EXCEPT ![p].store = s]

(* A conversation gets messages and the latest updatedAt, if it is still there. *)
Updated(s, t, m) ==
  IF t \notin DOMAIN s.msgs THEN s
  ELSE [s EXCEPT !.msgs[t] = m, !.recent = <<t>> \o RemoveFirst(@, t)]

Init == /\ storage = NoStore
        /\ panel = [p \in Tabs |-> Closed]
        /\ run = [p \in Tabs |-> NoRun]
        /\ asked = 0

-----------------------------------------------------------------------------
OpenPanel(p) ==
  /\ ~Open(p)
  /\ \E s \in IF storage = NoStore THEN {Fresh(t) : t \in Unused} ELSE {Trimmed(storage)} :
       /\ panel' = [panel EXCEPT ![p] = [Closed EXCEPT !.store = s]]
       /\ storage' = Trimmed(s)
  /\ UNCHANGED <<run, asked>>

(* The panel unmounts.  The stream and the title request go on, for nobody. *)
Minimize(p) ==
  /\ Open(p)
  /\ panel' = [panel EXCEPT ![p] = Closed]
  /\ run' = [run EXCEPT ![p] = NoRun]
  /\ UNCHANGED <<storage, asked>>

Messages(p) == panel[p].store.msgs[panel[p].store.active]

With(s, t) ==
  [order |-> <<t>> \o s.order, recent |-> <<t>> \o s.recent,
   msgs |-> [u \in (DOMAIN s.msgs) \cup {t} |-> IF u = t THEN <<>> ELSE s.msgs[u]],
   named |-> s.named, active |-> t]

NewChat(p) ==
  /\ Open(p) /\ Messages(p) # <<>>
  /\ \E t \in Unused : SetStore(p, With(panel[p].store, t))
  /\ UNCHANGED <<run, asked>>

SelectChat(p, t) ==
  /\ Open(p) /\ t \in DOMAIN panel[p].store.msgs /\ t # panel[p].store.active
  /\ SetStore(p, [panel[p].store EXCEPT !.active = t])
  /\ UNCHANGED <<run, asked>>

(* Mutant: the conversation that is shown stays the one that was deleted. *)
Without_Active(s, t) ==
  LET o == RemoveFirst(s.order, t)
  IN [order |-> o, recent |-> RemoveFirst(s.recent, t), msgs |-> [u \in ToSet(o) |-> s.msgs[u]],
      named |-> s.named \ {t}, active |-> s.active]

Without(s, t) ==
  LET o == RemoveFirst(s.order, t)
  IN [order |-> o, recent |-> RemoveFirst(s.recent, t), msgs |-> [u \in ToSet(o) |-> s.msgs[u]],
      named |-> s.named \ {t}, active |-> IF s.active = t THEN o[1] ELSE s.active]

DeleteChat(p, t) ==
  /\ Open(p) /\ t \in DOMAIN panel[p].store.msgs
  /\ IF Len(panel[p].store.order) > 1
     THEN SetStore(p, Without(panel[p].store, t))
     ELSE \E u \in Unused : SetStore(p, Fresh(u))
  /\ UNCHANGED <<run, asked>>

(* runAssistant, up to the request. *)
Send(p) ==
  /\ Open(p) /\ ~panel[p].pending /\ asked < MaxQuestions
  /\ LET t == panel[p].store.active
         base == Append(Messages(p), User(asked + 1))
         s == Updated(panel[p].store, t, Append(base, Assistant(asked + 1, "blank")))
     IN /\ run' = [run EXCEPT ![p] = [stage |-> "streaming", chat |-> t, of |-> asked + 1,
                                       base |-> base, said |-> "blank", round |-> 0]]
        /\ panel' = [panel EXCEPT ![p].store = s, ![p].pending = TRUE]
        /\ storage' = Trimmed(s)
  /\ asked' = asked + 1

(* Mutant: a piece goes to the conversation that is shown. *)
Answer_Shown(p, text) ==
  SetStore(p, Updated(panel[p].store, panel[p].store.active,
                      Append(run[p].base, Assistant(run[p].of, text))))

(* A piece of the answer is written behind the question, over what was there. *)
Answer(p, text) ==
  SetStore(p, Updated(panel[p].store, run[p].chat, Append(run[p].base, Assistant(run[p].of, text))))

(* A delta; the model's text may come in any round. *)
Delta(p) ==
  /\ run[p].stage = "streaming" /\ run[p].said # "whole"
  /\ \E text \in {"part", "whole"} \ {run[p].said} :
       Answer(p, text) /\ run' = [run EXCEPT ![p].said = text]
  /\ UNCHANGED asked

(* The server calls tools and asks the model again. *)
ToolRound(p) ==
  /\ run[p].stage = "streaming" /\ run[p].said # "whole" /\ run[p].round < MaxRounds
  /\ run' = [run EXCEPT ![p].round = @ + 1]
  /\ UNCHANGED <<storage, panel, asked>>

(* Mutant: an error leaves the composer disabled. *)
Fails_Pending(p) ==
  /\ panel' = [panel EXCEPT ![p].store = Updated(@, run[p].chat, run[p].base)]
  /\ storage' = Trimmed(panel'[p].store)
  /\ run' = [run EXCEPT ![p] = NoRun]

(* The catch block: what was answered so far is taken back. *)
Fails(p) ==
  /\ panel' = [panel EXCEPT ![p].store = Updated(@, run[p].chat, run[p].base), ![p].pending = FALSE]
  /\ storage' = Trimmed(panel'[p].store)
  /\ run' = [run EXCEPT ![p] = NoRun]

(* An error event (of the model, or the round limit), or a stream that breaks. *)
StreamFails(p) ==
  /\ run[p].stage = "streaming" /\ Fails(p)
  /\ UNCHANGED asked

(* The run is over; the first answer of a conversation asks for a title. *)
Finished(p, s) ==
  /\ panel' = [panel EXCEPT ![p].store = s, ![p].pending = FALSE,
                            ![p].titling = IF Len(run[p].base) = 1 THEN @ \cup {run[p].chat} ELSE @]
  /\ run' = [run EXCEPT ![p] = NoRun]

(* The end of the stream, also of one that was cut short without an error: what
   was said is there already. *)
StreamEnds(p) ==
  /\ run[p].stage = "streaming"
  /\ IF run[p].said = "blank" THEN run' = [run EXCEPT ![p].stage = "fallback"] /\ UNCHANGED panel
     ELSE Finished(p, panel[p].store)
  /\ UNCHANGED <<storage, asked>>

(* POST /copilot/chat: an answer, or none. *)
Fallback(p) ==
  /\ run[p].stage = "fallback"
  /\ \/ /\ Finished(p, Updated(panel[p].store, run[p].chat,
                                Append(run[p].base, Assistant(run[p].of, "whole"))))
        /\ storage' = Trimmed(panel'[p].store)
     \/ Fails(p)
  /\ UNCHANGED asked

Titled(s, t) == IF t \in DOMAIN s.msgs
                THEN [Updated(s, t, s.msgs[t]) EXCEPT !.named = @ \cup {t}] ELSE s

(* The title, or the one made from the question if the request fails. *)
TitleArrives(p, t) ==
  /\ t \in panel[p].titling
  /\ panel' = [panel EXCEPT ![p].titling = @ \ {t}, ![p].store = Titled(@, t)]
  /\ storage' = Trimmed(panel'[p].store)
  /\ UNCHANGED <<run, asked>>

Streams(p) == Delta(p) \/ ToolRound(p) \/ StreamFails(p) \/ StreamEnds(p) \/ Fallback(p)

Next == \E p \in Tabs :
          \/ OpenPanel(p) \/ Minimize(p) \/ NewChat(p) \/ Send(p) \/ Streams(p)
          \/ \E t \in Chats : SelectChat(p, t) \/ DeleteChat(p, t) \/ TitleArrives(p, t)

Spec == Init /\ [][Next]_vars

(* The server's rounds and its requests to the model are bounded in number and in
   time, so what a stream waits for comes. *)
Fairness == \A p \in Tabs : WF_vars(Streams(p))

FairSpec == Spec /\ Fairness

-----------------------------------------------------------------------------
(* Wherever the user goes while an answer streams in, a message of the assistant
   stands behind the question it answers, and no question is asked or answered
   twice (the head of a trimmed conversation may have lost its question). *)
AnswersFollowQuestions ==
  \A s \in {storage} \cup {panel[p].store : p \in Tabs} :
    \A t \in DOMAIN s.msgs : LET m == s.msgs[t] IN
      /\ \A i \in 2..Len(m) : m[i].role = "assistant" => m[i - 1] = User(m[i].of)
      /\ \A u \in DOMAIN s.msgs, i \in 1..Len(m) : \A j \in 1..Len(s.msgs[u]) :
           m[i].role = s.msgs[u][j].role /\ m[i].of = s.msgs[u][j].of => t = u /\ i = j

Complete(s) == {a \in (DOMAIN s.msgs) \X Questions :
                  \E i \in 1..Len(s.msgs[a[1]]) : s.msgs[a[1]][i] = Assistant(a[2], "whole")}

(* A finished answer goes from storage only by the write of one panel, and only
   if that panel had never seen the answer (another tab's) or no longer has the
   conversation, or if the answer is among the oldest of what it writes, beyond
   a limit: the conversation that is written to is never what a limit removes. *)
OldAnswersGo ==
  \A a \in Complete(storage) \ Complete(storage') : (\A p \in Tabs : run[p].of # a[2]) =>
    \E p \in Tabs : LET s == panel[p].store  s1 == panel'[p].store IN
      /\ panel'[p] # Closed /\ storage' = Trimmed(s1)
      /\ \A q \in Tabs \ {p} : panel'[q] = panel[q]
      /\ \/ a \notin Complete(s) \/ a[1] \notin DOMAIN s1.msgs
         \/ \E i \in (MaxChats + 1)..Len(s1.recent) : s1.recent[i] = a[1]
         \/ \E i \in 1..(Len(s1.msgs[a[1]]) - MaxMessages) : s1.msgs[a[1]][i].of = a[2]

OnlyOldAnswersGo == [][OldAnswersGo]_vars

(* A panel does not stay busy: however the stream ends, one can ask again. *)
PanelFrees == \A p \in Tabs : panel[p].pending ~> ~panel[p].pending
=============================================================================
