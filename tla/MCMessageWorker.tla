-------------------------- MODULE MCMessageWorker --------------------------
(* Instances of MessageWorker for TLC. *)
EXTENDS MessageWorker, TLC

CONSTANTS m1, m2, m3, chatA

OneChat == [m \in Messages |-> chatA]

A == INSTANCE AgentEvent

Stored(data, text) == [content |-> "text", data |-> data, text |-> text]
KindOf(data, text) == A!KindOf(Stored(data, text))

Texts == [m \in Messages |-> KindOf(None, "words")]
\* a text, one that may answer a question, and a callback without data
TextsAndBlank ==
    m1 :> KindOf(None, "words") @@ m2 :> KindOf(None, "term") @@ m3 :> KindOf("empty", "blank")
TextsAndCommand == [m \in Messages |-> KindOf(None, IF m = m2 THEN "/start" ELSE "words")]

\* The replies by what the worker asks of them: "question" asks for a confirmation
\* and is not dropped, "menu" carries a ui context, "broken" cannot be rendered.
MCDroppable == {"plain", "menu", "broken"}
MCAsking == {"question"}
MCWithContext == {"menu"}
MCUnrenderable == {"broken"}

\* Every message has one of MessageWorker's kinds, and whatever text an event
\* carries, it is a confirmation exactly if its message is of that kind; a
\* message is an open text by its kind and by not being Blank.
ASSUME KindsCheck ==
    \A r \in A!MessageRecords :
        /\ A!KindOf(r) \in Kinds
        /\ A!ListedAsText(r) <=>
            r.data # "empty" /\ A!KindOf(r) \in {"text", "command", "answer"}
        /\ \A text \in A!TextClasses :
            A!EventType(r, text) = "confirmation" <=> A!KindOf(r) = "confirmation"

MessageSymmetry == Permutations(Messages)

============================================================================
