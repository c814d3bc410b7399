---------------------------- MODULE Conversations ----------------------------
(***************************************************************************)
(* One conversation (conversations.py) and the turns users take in it       *)
(* (answer_conversation of runtime.py).  A message is its number.  A turn   *)
(* saves the user's message, admits a mission when the text asks for one,   *)
(* records a provider attempt, lets the model use tools for some rounds,    *)
(* and saves the reply; it may die or fail anywhere and be tried again with *)
(* the same idempotency key.  append_message, close and reopen read the     *)
(* conversation and later save the whole of what they read.  One file may   *)
(* be uploaded and cited by turns (attachments.py).                         *)
(***************************************************************************)
EXTENDS Integers, Sequences, FiniteSets, FiniteSetsExt

CONSTANTS
    ChatClients,    \* requests served at the same time
    MaxChatTurns,       \* bound on requests
    KeyedTurns,     \* whether requests carry the idempotency key: a set of Booleans
    MaxToolSteps    \* CONVERSATION_MAX_TOOL_STEPS

ASSUME KeyedTurnsAssumption == KeyedTurns \subseteq BOOLEAN

VARIABLES
    convo,      \* the conversation record: [status, ids]
    messages,   \* number -> [role, keyed, to, intent, cites]; each saved with its event and index entry
    attempts,   \* provider_attempt records: [msg, number, mission, status]
    missions,   \* number -> [of: the message that created it, open]
    toolRuns,   \* [msg, step] -> times a tool ran under that key
    turn,       \* client -> what it is doing
    returned,   \* replies returned for the key
    staleSave,  \* a conversation was saved over a newer one
    overlap,    \* two turns ran at once
    begun,      \* requests so far
    upload      \* the attachment: "none", "file" written, "recorded"

chatVars == <<convo, messages, attempts, missions, toolRuns, turn, returned, staleSave, overlap,
              begun, upload>>

NoTurn == [at |-> "rest"]

ConversationInit ==
    /\ convo = [status |-> "open", ids |-> {}] /\ messages = <<>>
    /\ attempts = {} /\ missions = <<>> /\ toolRuns = [k \in {} |-> 0]
    /\ turn = [c \in ChatClients |-> NoTurn] /\ returned = {}
    /\ staleSave = FALSE /\ overlap = FALSE /\ begun = 0
    /\ upload = "none"

Numbers == DOMAIN messages
\* find_message_by_idempotency and find_assistant_response: the oldest match.
WithKey == {m \in Numbers : messages[m].keyed}
RepliesTo(m) == {r \in Numbers : messages[r].to = m}
Oldest(S) == IF S = {} THEN 0 ELSE Min(S)

ChatAt(c, where) == turn[c].at = where
TurnGoes(c, where) == turn' = [turn EXCEPT ![c].at = where]
Rests(c) == turn' = [turn EXCEPT ![c] = NoTurn]
Working(c) == turn[c] # NoTurn
Start(c, what) ==
    /\ ~Working(c) /\ begun < MaxChatTurns /\ begun' = begun + 1
    /\ turn' = [turn EXCEPT ![c] = what]

------------------------------------------------------------------------------
\* append_message, in two steps: the conversation and the key are read, ...
MayAppend(snapshot) == snapshot.status # "closed"

UserAppendReads(c) ==
    /\ ChatAt(c, "user")
    /\ CASE ~MayAppend(convo) -> Rests(c)
         [] MayAppend(convo) /\ turn[c].keyed /\ WithKey # {} ->
              turn' = [turn EXCEPT ![c].at = "admit", ![c].user = Oldest(WithKey)]
         [] OTHER -> turn' = [turn EXCEPT ![c].at = "user-save", ![c].snap = convo]
    /\ UNCHANGED <<convo, messages, attempts, missions, toolRuns, returned, staleSave, overlap, begun,
                   upload>>
ReplyAppendReads(c) ==
    /\ ChatAt(c, "reply")
    /\ IF ~MayAppend(convo) THEN Rests(c)
       ELSE turn' = [turn EXCEPT ![c].at = "reply-save", ![c].snap = convo]
    /\ UNCHANGED <<convo, messages, attempts, missions, toolRuns, returned, staleSave, overlap, begun,
                   upload>>
\* ... and save_conversation_bundle writes the message, its index entry, its event
\* and the conversation as read with the message added.
Bundle(c, message) ==
    /\ messages' = Append(messages, message)
    /\ convo' = [turn[c].snap EXCEPT !.ids = @ \cup {Len(messages) + 1}]
    /\ staleSave' = (staleSave \/ turn[c].snap # convo)

------------------------------------------------------------------------------
\* upload: the file is written and then its record.  One that no request is left
\* to cite is left out.
UploadWrites ==
    /\ upload = "none" /\ upload' = "file" /\ begun < MaxChatTurns
    /\ UNCHANGED <<convo, messages, attempts, missions, toolRuns, turn, returned, staleSave, overlap,
                   begun>>
UploadRecords ==
    /\ upload = "file" /\ upload' = "recorded" /\ begun < MaxChatTurns
    /\ UNCHANGED <<convo, messages, attempts, missions, toolRuns, turn, returned, staleSave, overlap,
                   begun>>
\* _resolve_conversation_attachments refuses an attachment without a record.
Resolved(cites) == cites => upload = "recorded"

\* answer_conversation: a key that has its reply is answered with it, one that has
\* only its user message goes on from there in the mode saved with it, else the
\* message is appended.
TurnLooks(c, intent, keyed, cites) ==
    LET user == IF keyed THEN Oldest(WithKey) ELSE 0
        reply == IF user = 0 THEN 0 ELSE Oldest(RepliesTo(user))
    IN /\ Resolved(cites)
       /\ overlap' = (overlap \/ \E d \in ChatClients : Working(d) /\ turn[d].at \notin {"close", "reopen"})
       /\ IF reply # 0
          THEN /\ returned' = returned \cup {reply} /\ begun < MaxChatTurns /\ begun' = begun + 1
               /\ ~Working(c) /\ UNCHANGED turn
          ELSE /\ Start(c, [at |-> IF user = 0 THEN "user" ELSE "admit", user |-> user, keyed |-> keyed,
                            intent |-> IF user = 0 THEN intent ELSE messages[user].intent, cites |-> cites,
                            snap |-> convo, mission |-> 0, number |-> 0, steps |-> 0, round |-> 0])
               /\ UNCHANGED returned
       /\ UNCHANGED <<convo, messages, attempts, missions, toolRuns, staleSave, upload>>
TurnAppendsUser(c) ==
    /\ ChatAt(c, "user-save")
    /\ Bundle(c, [role |-> "user", keyed |-> turn[c].keyed, to |-> 0, intent |-> turn[c].intent,
                  cites |-> turn[c].cites])
    /\ turn' = [turn EXCEPT ![c].at = "admit", ![c].user = Len(messages) + 1]
    /\ UNCHANGED <<attempts, missions, toolRuns, returned, overlap, begun, upload>>

\* The mission of the latest attempt that has one, else one with the same objective
\* that is not over, else a new one.
AdmitAlways(m) == 0
AdmittedBefore(m) ==
    LET mine == {a \in attempts : a.msg = m /\ a.mission # 0}
        open == {i \in DOMAIN missions : missions[i].open}
    IN IF mine # {} THEN (CHOOSE a \in mine : \A b \in mine : b.number <= a.number).mission
       ELSE IF open # {} THEN Max(open) ELSE 0
TurnAdmits(c) ==
    /\ ChatAt(c, "admit")
    /\ IF turn[c].intent # "mission"
       THEN TurnGoes(c, "attempt") /\ UNCHANGED missions
       ELSE LET found == AdmittedBefore(turn[c].user)
            IN /\ missions' = IF found # 0 THEN missions
                              ELSE Append(missions, [of |-> turn[c].user, open |-> TRUE])
               /\ turn' = [turn EXCEPT ![c].at = "attempt",
                                       ![c].mission = IF found # 0 THEN found ELSE Len(missions) + 1]
    /\ UNCHANGED <<convo, messages, attempts, toolRuns, returned, staleSave, overlap, begun, upload>>
\* A mission completes, fails or is blocked.
MissionEnds(i) ==
    /\ i \in DOMAIN missions /\ missions[i].open /\ missions' = [missions EXCEPT ![i].open = FALSE]
    /\ UNCHANGED <<convo, messages, attempts, toolRuns, turn, returned, staleSave, overlap, begun, upload>>

\* The attempt is numbered after the ones on record and saved before the model is
\* called.
Attempt(c, number, status) == [msg |-> turn[c].user, number |-> number, mission |-> turn[c].mission,
                               status |-> status]
Others(c, number) == {a \in attempts : a.msg # turn[c].user \/ a.number # number}
AttemptStarts(c) ==
    /\ ChatAt(c, "attempt")
    /\ LET n == Cardinality({a \in attempts : a.msg = turn[c].user}) + 1
       IN /\ attempts' = Others(c, n) \cup {Attempt(c, n, "started")}
          /\ turn' = [turn EXCEPT ![c].at = "model", ![c].number = n]
    /\ UNCHANGED <<convo, messages, missions, toolRuns, returned, staleSave, overlap, begun, upload>>

\* _conversation_agent_response: a round in which the model asks for a tool (an
\* unknown one is refused); the tool runtime runs a key once.
ModelUsesTool(c, known) ==
    LET key == <<turn[c].user, turn[c].steps + 1>>
    IN /\ ChatAt(c, "model") /\ turn[c].intent = "chat" /\ turn[c].round < MaxToolSteps
       /\ turn' = [turn EXCEPT ![c].round = @ + 1, ![c].steps = IF known THEN @ + 1 ELSE @]
       /\ toolRuns' = IF ~known \/ key \in DOMAIN toolRuns THEN toolRuns
                      ELSE [k \in DOMAIN toolRuns \cup {key} |-> 1]
       /\ UNCHANGED <<convo, messages, attempts, missions, returned, staleSave, overlap, begun, upload>>
\* The model answers, or the summary round after the last tool step does.
ModelAnswers(c) ==
    /\ ChatAt(c, "model") /\ TurnGoes(c, "reply")
    /\ attempts' = Others(c, turn[c].number) \cup {Attempt(c, turn[c].number, "succeeded")}
    /\ UNCHANGED <<convo, messages, missions, toolRuns, returned, staleSave, overlap, begun, upload>>
ModelFails(c) ==
    /\ ChatAt(c, "model") /\ Rests(c)
    /\ attempts' = Others(c, turn[c].number) \cup {Attempt(c, turn[c].number, "failed")}
    /\ UNCHANGED <<convo, messages, missions, toolRuns, returned, staleSave, overlap, begun, upload>>
TurnAppendsReply(c) ==
    /\ ChatAt(c, "reply-save") /\ Rests(c)
    /\ Bundle(c, [role |-> "assistant", keyed |-> FALSE, to |-> turn[c].user, intent |-> turn[c].intent,
                  cites |-> FALSE])
    /\ returned' = IF turn[c].keyed THEN returned \cup {Len(messages) + 1} ELSE returned
    /\ UNCHANGED <<attempts, missions, toolRuns, overlap, begun, upload>>
\* The process dies.
TurnDies(c) ==
    /\ Working(c) /\ Rests(c)
    /\ UNCHANGED <<convo, messages, attempts, missions, toolRuns, returned, staleSave, overlap, begun, upload>>

\* close and reopen: nothing to do in the state asked for, else the conversation
\* read is saved with the other status.
StatusReads(c, op) ==
    /\ convo.status = (IF op = "close" THEN "open" ELSE "closed")
    /\ Start(c, [at |-> op, snap |-> convo])
    /\ UNCHANGED <<convo, messages, attempts, missions, toolRuns, returned, staleSave, overlap, upload>>
StatusSaves(c) ==
    /\ turn[c].at \in {"close", "reopen"} /\ Rests(c)
    /\ convo' = [turn[c].snap EXCEPT !.status = IF turn[c].at = "close" THEN "closed" ELSE "open"]
    /\ staleSave' = (staleSave \/ turn[c].snap # convo)
    /\ UNCHANGED <<messages, attempts, missions, toolRuns, returned, overlap, begun, upload>>

ConversationNext ==
    \/ \E c \in ChatClients :
         \/ \E keyed \in KeyedTurns : \/ TurnLooks(c, "mission", keyed, FALSE)
                                     \/ \E cites \in BOOLEAN : TurnLooks(c, "chat", keyed, cites)
         \/ UserAppendReads(c) \/ TurnAppendsUser(c)
         \/ TurnAdmits(c) \/ AttemptStarts(c)
         \/ \E known \in BOOLEAN : ModelUsesTool(c, known)
         \/ ModelAnswers(c) \/ ModelFails(c)
         \/ ReplyAppendReads(c) \/ TurnAppendsReply(c) \/ TurnDies(c)
         \/ \E op \in {"close", "reopen"} : StatusReads(c, op)
         \/ StatusSaves(c)
    \/ \E i \in DOMAIN missions : MissionEnds(i)
    \/ UploadWrites \/ UploadRecords

ConversationSpec == ConversationInit /\ [][ConversationNext]_chatVars

------------------------------------------------------------------------------
Convos == [status : {"open", "closed"}, ids : SUBSET Nat]
Messages == [role : {"user", "assistant"}, keyed : BOOLEAN, to : Nat, intent : {"chat", "mission"},
             cites : BOOLEAN]
Underway == {"user", "user-save", "admit", "attempt", "model", "reply", "reply-save"}
Turns == [at : Underway, user : Nat, keyed : BOOLEAN, intent : {"chat", "mission"}, cites : BOOLEAN,
          snap : Convos, mission : Nat, number : Nat, steps : Nat, round : Nat]
StatusCalls == [at : {"close", "reopen"}, snap : Convos]

\* The state keeps its shape.
ConversationTypeOK ==
    /\ convo \in Convos /\ messages \in Seq(Messages)
    /\ attempts \subseteq [msg : Nat, number : Nat, mission : Nat,
                           status : {"started", "succeeded", "failed"}]
    /\ missions \in Seq([of : Nat, open : BOOLEAN])
    /\ DOMAIN toolRuns \subseteq Nat \X Nat /\ toolRuns \in [DOMAIN toolRuns -> {1}]
    /\ turn \in [ChatClients -> Turns \cup StatusCalls \cup {NoTurn}]
    /\ returned \subseteq Nat /\ staleSave \in BOOLEAN /\ overlap \in BOOLEAN /\ begun \in Nat
    /\ upload \in {"none", "file", "recorded"}

\* However turns fail, die and are tried again: the conversation lists only messages
\* that exist, and all of them unless one was saved over a newer one; without turns
\* running at once a key has one user message and one reply, every answer under it
\* is that reply, and it creates no second mission while its first is not over;
\* every reply has an attempt that succeeded; and a message cites only a recorded
\* attachment.
ConversationSound ==
    /\ convo.ids \subseteq Numbers
    /\ ~staleSave => convo.ids = Numbers
    /\ ~overlap => /\ Cardinality(WithKey) <= 1
                   /\ \A m \in Numbers : Cardinality(RepliesTo(m)) <= 1
                   /\ Cardinality(returned) <= 1
    /\ ~overlap => \A i, j \in DOMAIN missions : i < j /\ missions[i].of = missions[j].of => ~missions[i].open
    /\ \A m \in Numbers : messages[m].role = "assistant" =>
         overlap \/ \E a \in attempts : a.msg = messages[m].to /\ a.status = "succeeded"
    /\ \A m \in Numbers : messages[m].cites => upload = "recorded"
=============================================================================
