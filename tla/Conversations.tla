--------------------------- MODULE Conversations ---------------------------
(***************************************************************************)
(* Loading of conversations: one entry of a ShareGPT or ChatML file, for   *)
(* fine-tuning, and one pair of conversations, for DPO.  A message has a   *)
(* role and a content; contents are blank or one of a few.                 *)
(***************************************************************************)
EXTENDS Integers, SequencesExt

CONSTANTS
    Contents,        \* contents that are not blank
    Blank,           \* a content of blanks
    MaxTurns         \* the most turns of a conversation (a bound of the model)

ASSUME ConversationsAssumption == Blank \notin Contents /\ MaxTurns \in Nat

VARIABLES
    format,          \* what is loaded
    entry,           \* the entry: its system prompt, or Blank, and its turns; a
                     \* pair has two lists of turns
    loaded           \* what the loader gives for it

conversationVars == <<format, entry, loaded>>

\* Before the call; an entry that is skipped; an exception, for the whole file.
Unread == [outcome |-> "unread"]
Skipped == [outcome |-> "skipped"]
Raised == [outcome |-> "raised"]
Kept(conversations) == [outcome |-> "kept", conversations |-> conversations]

\* Roles as ShareGPT names them, "tool" standing for one that is not supported.
RoleMap == [human |-> "user", user |-> "user", gpt |-> "assistant",
            assistant |-> "assistant", system |-> "system"]

Message(role, content) == [role |-> role, content |-> content]
Messages(roles) == [role : roles, content : Contents \cup {Blank}]

\* The turns of a conversation: of the roles that are the same to a loader, one.
Turns(roles) == UNION {[1 .. n -> Messages(roles)] : n \in 0 .. MaxTurns}

\* Mutant: one trailing message is dropped.
TrimOnce(messages) ==
    IF messages # <<>> /\ Last(messages).role # "assistant" THEN Front(messages)
    ELSE messages

\* Trailing messages that are not the assistant's are dropped.
Trim(messages) ==
    LET answers == {i \in DOMAIN messages : messages[i].role = "assistant"}
    IN  IF answers = {} THEN <<>>
        ELSE SubSeq(messages, 1, CHOOSE i \in answers : \A j \in answers : j <= i)

System(prompt) == IF prompt = Blank THEN <<>> ELSE <<Message("system", prompt)>>

\* load_sharegpt, load_chatml, which does not look at roles, load_standard.
LoadShareGPT(e) ==
    LET said == FlattenSeq([i \in DOMAIN e.turns |->
                    IF e.turns[i].content = Blank THEN <<>>
                    ELSE <<Message(RoleMap[e.turns[i].role], e.turns[i].content)>>])
        messages == Trim(System(e.system) \o said)
    IN  IF \E i \in DOMAIN e.turns : e.turns[i].role \notin DOMAIN RoleMap THEN Raised
        ELSE IF messages = <<>> THEN Skipped ELSE Kept(<<messages>>)

LoadChatML(e) == IF e.turns = <<>> THEN Skipped ELSE Kept(<<e.turns>>)

\* load_alpaca: a turn of the instruction, stripped, and one of the output.
LoadAlpaca(e) ==
    IF Len(e.turns) # 2 \/ e.turns[2].content = Blank THEN Skipped
    ELSE Kept(<< <<Message("user", e.turns[1].content),
                 Message("assistant", e.turns[2].content)>> >>)

\* _prompts_match: message by message, role and content.
PromptsMatch(a, b) ==
    /\ Len(a) = Len(b)
    /\ \A i \in DOMAIN a : a[i].role = b[i].role /\ a[i].content = b[i].content

LoadPair(e) ==
    LET chosen == Trim(System(e.system) \o e.turns)
        rejected == Trim(System(e.system) \o e.others)
    IN  IF e.turns = <<>> \/ e.others = <<>> \/ chosen = <<>> \/ rejected = <<>>
           \/ ~PromptsMatch(Front(chosen), Front(rejected))
           \/ Last(chosen).content = Last(rejected).content
        THEN Skipped ELSE Kept(<<chosen, rejected>>)

\* format_for_training: the last message is what is learnt, the others the prompt.
FormatForTraining(messages) ==
    [input |-> Front(messages), output |-> Last(messages)]

-----------------------------------------------------------------------------
ConversationsInit ==
    /\ \/ /\ format = "sharegpt"
          /\ entry \in [system : Contents \cup {Blank},
                        turns : Turns({"human", "gpt", "tool"}), others : {<<>>}]
       \/ /\ format \in {"chatml", "alpaca"}
          /\ entry \in [system : {Blank}, turns : Turns({"user", "assistant"}),
                        others : {<<>>}]
       \/ /\ format = "pair"
          /\ entry \in [system : {Blank, CHOOSE c \in Contents : TRUE},
                        turns : Turns({"user", "assistant"}),
                        others : Turns({"user", "assistant"})]
    /\ loaded = Unread

\* load_file of the data processor, with the loader of the format.
LoadFile ==
    /\ loaded = Unread /\ format # "pair"
    /\ loaded' = CASE format = "sharegpt" -> LoadShareGPT(entry)
                   [] format = "chatml" -> LoadChatML(entry)
                   [] format = "alpaca" -> LoadAlpaca(entry)
    /\ UNCHANGED <<format, entry>>

\* load_file of the preference data, which knows one format.
LoadPreferences ==
    /\ loaded = Unread /\ format = "pair"
    /\ loaded' = LoadPair(entry)
    /\ UNCHANGED <<format, entry>>

ConversationsNext == LoadFile \/ LoadPreferences

ConversationsSpec == ConversationsInit /\ [][ConversationsNext]_conversationVars

-----------------------------------------------------------------------------
\* What is trained is an answer to what was asked.  Of ShareGPT data the part
\* that is learnt is what the assistant said, and no message of before it is
\* lost.  A preference pair has one prompt, and it is kept exactly when the two
\* conversations are one prompt, two different answers, and any number of
\* messages of the user after those.
TrainsOnAnswers ==
    /\ loaded.outcome = "kept" =>
          LET formatted == [i \in DOMAIN loaded.conversations |->
                               FormatForTraining(loaded.conversations[i])]
          IN  /\ format \in {"sharegpt", "alpaca"} =>
                    /\ formatted[1].output.role = "assistant"
                    /\ formatted[1].output.content # Blank
              /\ format = "sharegpt" =>
                    \A i \in DOMAIN entry.turns :
                       entry.turns[i].role = "gpt" /\ entry.turns[i].content # Blank =>
                          Contains(loaded.conversations[1],
                                   Message("assistant", entry.turns[i].content))
              /\ format = "pair" =>
                    /\ formatted[1].input = formatted[2].input
                    /\ formatted[1].output # formatted[2].output
    /\ format = "pair" /\ loaded # Unread =>
          (loaded # Skipped <=>
             \E i \in DOMAIN entry.turns, j \in DOMAIN entry.others :
                /\ SubSeq(entry.turns, 1, i - 1) = SubSeq(entry.others, 1, j - 1)
                /\ entry.turns[i].content # entry.others[j].content
                /\ \A k \in i .. Len(entry.turns) :
                      entry.turns[k].role = "assistant" <=> k = i
                /\ \A k \in j .. Len(entry.others) :
                      entry.others[k].role = "assistant" <=> k = j)
=============================================================================
