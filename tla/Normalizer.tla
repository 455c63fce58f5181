---------------------------- MODULE Normalizer ----------------------------
(***************************************************************************)
(* inbound_normalizer.py: from a webhook's payload to the chat, the event  *)
(* id, the provider's message id and the content that the rest of the      *)
(* program goes by.  A payload is a record of the fields that decide, None *)
(* where a field is missing; an id is the tuple of what its string is      *)
(* built from.  Names of users and media files are left out.               *)
(***************************************************************************)

CONSTANT None

\* Telegram: at most one of the three parts is there in practice, but the code
\* decides on their order.
TelegramUpdate(update, callback, message, edited) ==
    [provider |-> "telegram", update |-> update, callback |-> callback,
     message |-> message, edited |-> edited]

\* the parts; body is what a message carries: "text", "voice", "photo", None
Part(chat, id, body) == [chat |-> chat, id |-> id, body |-> body]
Query(chat, from, id, data) == [chat |-> chat, from |-> from, id |-> id, data |-> data]

\* WhatsApp, in the flat form and in that of its business API
WhatsAppFlat(chat, id, type) ==
    [provider |-> "whatsapp", form |-> "flat", chat |-> chat, id |-> id, type |-> type]
WhatsAppEntry(chat, id, type) ==
    [provider |-> "whatsapp", form |-> "entry", chat |-> chat, id |-> id, type |-> type]

Or(a, b) == IF a # None THEN a ELSE b

Invalid == [chat |-> None, event |-> None, message |-> None, content |-> None]

---------------------------------------------------------------------------

ContentOf(body) ==
    CASE body = "text" -> "text"
      [] body = "voice" -> "audio"
      [] body = "photo" -> "image"
      [] OTHER -> "unknown"

TelegramMessage(p) ==
    LET part == Or(p.message, p.edited) IN
    IF part = None \/ p.update = None THEN Invalid
    ELSE IF part.chat = None THEN Invalid
    ELSE [chat |-> part.chat,
          event |-> <<"telegram", "update", p.update>>,
          message |-> IF part.id = None THEN None ELSE <<"telegram", part.id>>,
          content |-> ContentOf(part.body)]

\* the chat of the message with the buttons, or else the user who pressed one
TelegramCallback(p) ==
    LET chat == Or(p.callback.chat, p.callback.from)
        id == Or(p.callback.id, p.update)
    IN
    IF chat = None \/ p.callback.data = None \/ id = None THEN Invalid
    ELSE [chat |-> chat,
          event |-> <<"telegram", "callback", id>>,
          message |-> <<"telegram", "callback", id>>,
          content |-> "text"]

\* the flat form takes any type the model of a message knows, and no other
WhatsAppMessage(p) ==
    LET known == IF p.form = "flat" THEN {"text", "audio", "image", "unknown"} ELSE {"text", "audio"}
    IN
    IF p.id = None \/ (p.form = "flat" /\ p.type \notin known) THEN Invalid
    ELSE [chat |-> p.chat,
          event |-> <<"whatsapp", "message", p.id>>,
          message |-> <<"whatsapp", p.id>>,
          content |-> IF p.type \in known THEN p.type ELSE "unknown"]

Normalize(p) ==
    IF p.provider = "whatsapp" THEN WhatsAppMessage(p)
    ELSE IF p.callback # None THEN TelegramCallback(p)
    ELSE TelegramMessage(p)

===========================================================================
