---------------------------- MODULE AgentEvent ----------------------------
(***************************************************************************)
(* What the worker makes of a stored message: the type of the agent event  *)
(* (agent_event_mapper.py) and the reason to bypass the debounce           *)
(* (message_worker.py).  Of texts and callback data only the class counts  *)
(* that their prefixes put them in.                                        *)
(***************************************************************************)

CONSTANT None

CallbackData == {"menu:", "task:", "confirmation:", "global:cancel", "global:back",
                 "global:reset", "other", "blank", "empty"}
TextClasses == {"/start", "/", "term", "words", "blank"}

MessageRecords ==
    [content : {"text", "audio", "image", "unknown"}, data : CallbackData \cup {None},
     text : TextClasses]

\* _event_type; a combined text is classed by how it begins, and data of nothing
\* but blanks does not count
EventType(m, processed) ==
    CASE m.data = "menu:" -> "menu_selection"
      [] m.data = "task:" -> "task_selection"
      [] m.data = "confirmation:" -> "confirmation"
      [] m.data = "global:cancel" -> "cancel"
      [] m.data = "global:back" -> "back"
      [] m.data = "global:reset" -> "reset"
      [] m.data = "other" -> "text"
      [] OTHER -> IF (IF processed = "blank" THEN m.text ELSE processed) = "/start"
                  THEN "welcome" ELSE "text"

\* _debounce_bypass_reason, but for the question whether an answer is awaited;
\* the empty string is no callback to it
BypassReason(m) ==
    IF m.data \notin {None, "empty"} THEN "callback"
    ELSE IF m.content # "text" THEN "non_text"
    ELSE IF m.text \in {"/start", "/"} THEN "command"
    ELSE IF m.text = "term" THEN "pending_confirmation"
    ELSE None

\* The kinds of message that MessageWorker tells apart: by the bypass, and a
\* confirmation by its event type, which exempts its reply from being dropped.
KindOf(m) ==
    CASE BypassReason(m) = "callback" ->
            IF EventType(m, "blank") = "confirmation" THEN "confirmation" ELSE "callback"
      [] BypassReason(m) = "non_text" -> "audio"
      [] BypassReason(m) = "command" -> "command"
      [] BypassReason(m) = "pending_confirmation" -> "answer"
      [] OTHER -> "text"

\* ... and to list_open_text_items it is one: only NULL is none
ListedAsText(m) == m.content = "text" /\ m.data = None

===========================================================================
