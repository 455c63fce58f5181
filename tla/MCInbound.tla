----------------------------- MODULE MCInbound -----------------------------
(* Instances of Inbound for TLC. *)
EXTENDS Inbound, TLC

CONSTANTS original, edit, later, last

N == INSTANCE Normalizer

\* A message and its edit, which has the same message id; a button of the same
\* chat, pressed under a message that is no longer accessible; a later message.
Payload ==
    original :> N!TelegramUpdate(1, None, N!Part("chat", 7, "text"), None)
    @@ edit :> N!TelegramUpdate(2, None, None, N!Part("chat", 7, "text"))
    @@ later :> N!TelegramUpdate(3, N!Query(None, "chat", 9, "menu:"), None, None)
    @@ last :> N!TelegramUpdate(4, None, N!Part("chat", 8, "photo"), None)

MCChat == [u \in Updates |-> N!Normalize(Payload[u]).chat]
MCMessageId == [u \in Updates |-> N!Normalize(Payload[u]).message]
MCMessageIds == {MCMessageId[u] : u \in Updates}

\* All payloads over a few ids, for the checks of the normalizer below.
Ids == {1, 2, None}
Parts == {N!Part(c, i, b) : c \in {"chat", None}, i \in Ids, b \in {"text", "voice", None}}
Queries == {N!Query(c, f, i, d) :
                c \in {"chat", None}, f \in {"user", None}, i \in Ids, d \in {"menu:", None}}
Payloads ==
    {N!TelegramUpdate(i, c, m, None) : i \in Ids, c \in Queries \cup {None}, m \in Parts \cup {None}}
    \cup {N!TelegramUpdate(i, None, None, e) : i \in Ids, e \in Parts}
    \cup {N!WhatsAppFlat("chat", i, t) : i \in Ids, t \in {"text", "image", "sticker"}}
    \cup {N!WhatsAppEntry("chat", i, t) : i \in Ids, t \in {"text", "image", "sticker"}}

\* A payload is refused, or has a chat and an event id; the event ids of the
\* providers, and of messages and buttons, never meet; and those of two messages
\* only where the update id is the same.  Inbound's updates rest on this.
ASSUME NormalizerCheck ==
    /\ \A p \in Payloads :
        N!Normalize(p) = N!Invalid
            \/ (N!Normalize(p).chat # None /\ N!Normalize(p).event # None)
    /\ \A p \in Payloads, q \in Payloads :
        N!Normalize(p).event = N!Normalize(q).event /\ N!Normalize(p) # N!Invalid =>
            /\ p.provider = q.provider
            /\ p.provider = "telegram" => (p.callback = None <=> q.callback = None)
            /\ p.provider = "telegram" /\ p.callback = None => p.update = q.update
    /\ Cardinality({N!Normalize(Payload[u]).event : u \in Updates}) = Cardinality(Updates)

HandlerSymmetry == Permutations(Handlers)

============================================================================
