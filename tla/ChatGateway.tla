----------------------------- MODULE ChatGateway -----------------------------
(* The two chat gateways that come up: the Telegram bot of                  *)
(* agent/telegram_gateway.py, whose library handles one update after the    *)
(* other, and SlackGateway of agent/messaging_gateway.py, whose events are  *)
(* tasks of one event loop. The call of the agent's API blocks the loop, so *)
(* reading the session and the whole turn are one step.                     *)
EXTENDS Integers, Sequences, FiniteSets, Absent

CONSTANTS
    Chats,          \* channels, or threads of channels
    Sessions,       \* ids that /session and /new may set
    MaxUpdates,     \* bound of the model on messages
    MaxParts        \* bound of the model on an answer, in parts of 4000

ASSUME ChatGatewayAssumption == MaxUpdates \in Nat /\ MaxParts \in Nat /\ None \notin Sessions

VARIABLES
    platform,       \* which of the two runs
    session,        \* default_session, one for all chats
    updates,        \* the messages in the order of their arrival
    apiTurns,       \* at the API: the session and message of each turn
    sent            \* per chat, what was sent there, and for which message

gatewayVars == <<platform, session, updates, apiTurns, sent>>

Kinds == {"text", "session", "new", "show"}

(* _get_session_id: Slack gives every chat a session of its own.            *)
SessionOf(chat) == [default |-> session, chat |-> IF platform = "slack" THEN chat ELSE None]

Part(i) == [what |-> "part", n |-> i]
Word(w) == [what |-> w, n |-> 0]

Change(m, u) == updates' = [updates EXCEPT ![m] = u]

GatewayInit ==
    /\ platform \in {"telegram", "slack"}
    /\ session \in Sessions
    /\ updates = <<>> /\ apiTurns = <<>>
    /\ sent = [c \in Chats |-> <<>>]

-----------------------------------------------------------------------------
Receive(chat, kind, allowed) ==
    /\ Len(updates) < MaxUpdates
    /\ updates' = Append(updates, [at |-> "arrived", chat |-> chat, kind |-> kind,
                                   allowed |-> allowed, todo |-> <<>>])
    /\ UNCHANGED <<platform, session, apiTurns, sent>>

Due(m) ==
    /\ updates[m].at = "arrived"
    /\ platform = "telegram" => \A k \in 1..(m - 1) : updates[k].at = "over"

(* Some commands tell a user who is not allowed so.                         *)
Refuse(m) ==
    /\ Due(m) /\ ~updates[m].allowed
    /\ \/ Change(m, [updates[m] EXCEPT !.at = "over"])
       \/ /\ updates[m].kind \in (IF platform = "slack" THEN Kinds \ {"text"} ELSE {"show"})
          /\ Change(m, [updates[m] EXCEPT !.at = "send", !.todo = <<Word("refused")>>])
    /\ UNCHANGED <<platform, session, apiTurns, sent>>

(* /session, and /new of Telegram; all other commands only answer.          *)
GatewayCommand(m) ==
    /\ Due(m) /\ updates[m].allowed /\ updates[m].kind # "text"
    /\ IF updates[m].kind = "session" \/ (updates[m].kind = "new" /\ platform = "telegram")
       THEN session' \in Sessions
       ELSE UNCHANGED session
    /\ Change(m, [updates[m] EXCEPT !.at = "send", !.todo = <<Word("notice")>>])
    /\ UNCHANGED <<platform, apiTurns, sent>>

(* Telegram shows that it types first, which may raise.                     *)
BeginText(m) ==
    /\ Due(m) /\ updates[m].allowed /\ updates[m].kind = "text"
    /\ \/ Change(m, [updates[m] EXCEPT !.at = "chat"])
       \/ platform = "telegram" /\ Change(m, [updates[m] EXCEPT !.at = "over"])
    /\ UNCHANGED <<platform, session, apiTurns, sent>>

AnswerWith(m, n) ==
    [updates[m] EXCEPT !.at = "send",
        !.todo = IF platform = "slack" THEN (IF n = 0 THEN <<>> ELSE <<Part(1)>>)
                 ELSE IF n = 0 THEN <<Word("empty")>>
                 ELSE [i \in 1..n |-> Part(i)]]

(* What the API answers with an error is passed on as one; of another       *)
(* failure Slack says the same.                                             *)
ChatFails(m) ==
    \E w \in IF platform = "slack" THEN {"error"} ELSE {"error", "apology"} :
        Change(m, [updates[m] EXCEPT !.at = "send", !.todo = <<Word(w)>>])

(* A turn may run and its answer be lost: the API fails after it, or it     *)
(* takes longer than the client waits and goes on without it.               *)
ChatCall(m) ==
    /\ updates[m].at = "chat"
    /\ \/ /\ apiTurns' = Append(apiTurns, [of |-> m, in |-> SessionOf(updates[m].chat)])
          /\ ChatFails(m) \/ \E n \in 0..MaxParts : Change(m, AnswerWith(m, n))
       \/ UNCHANGED apiTurns /\ ChatFails(m)
    /\ UNCHANGED <<platform, session, sent>>

(* One part, and the next after it is delivered. An empty text is refused.  *)
Send(m) ==
    LET u == updates[m] IN
    /\ u.at = "send" /\ u.todo # <<>> /\ u.todo[1].what # "empty"
    /\ sent' = [sent EXCEPT ![u.chat] = Append(@, [of |-> m, item |-> u.todo[1]])]
    /\ Change(m, [u EXCEPT !.todo = Tail(@)])
    /\ UNCHANGED <<platform, session, apiTurns>>

SendFails_NextPart(m) ==
    LET u == updates[m] IN
    /\ u.at = "send" /\ u.todo # <<>>
    /\ Change(m, [u EXCEPT !.todo = Tail(@)])
    /\ UNCHANGED <<platform, session, apiTurns, sent>>

(* Telegram says once that an answer could not be sent. What else is not    *)
(* delivered is dropped with the rest of it.                                *)
SendFails(m) ==
    LET u == updates[m] IN
    /\ u.at = "send" /\ u.todo # <<>>
    /\ Change(m, IF platform = "telegram" /\ u.todo[1].what \notin {"refused", "notice", "apology"}
                 THEN [u EXCEPT !.todo = <<Word("apology")>>]
                 ELSE [u EXCEPT !.at = "over"])
    /\ UNCHANGED <<platform, session, apiTurns, sent>>

Finish(m) ==
    /\ updates[m].at = "send" /\ updates[m].todo = <<>>
    /\ Change(m, [updates[m] EXCEPT !.at = "over"])
    /\ UNCHANGED <<platform, session, apiTurns, sent>>

GatewayNext ==
    \/ \E c \in Chats, k \in Kinds, b \in BOOLEAN : Receive(c, k, b)
    \/ \E m \in DOMAIN updates :
         \/ Refuse(m) \/ GatewayCommand(m) \/ BeginText(m) \/ ChatCall(m)
         \/ Send(m) \/ SendFails(m) \/ Finish(m)

GatewaySpec == GatewayInit /\ [][GatewayNext]_gatewayVars

-----------------------------------------------------------------------------

(* What may be sent for a message: a part of an answer, or a word.          *)
Sayings == [what : {"part", "refused", "notice", "error", "apology", "empty"}, n : Nat]

GatewayTypeOK ==
    /\ platform \in {"telegram", "slack"} /\ session \in Sessions
    /\ updates \in Seq([at : {"arrived", "chat", "send", "over"}, chat : Chats, kind : Kinds,
                        allowed : BOOLEAN, todo : Seq(Sayings)])
    /\ apiTurns \in Seq([of : Nat, in : [default : Sessions, chat : Chats \cup {None}]])
    /\ sent \in [Chats -> Seq([of : Nat, item : Sayings])]

(* Where a list has what is for a message.                                  *)
About(list, m) == {i \in DOMAIN list : list[i].of = m}

(* Whatever overlaps and whatever is not delivered, a message of a chat     *)
(* makes one turn at most, only of one who may; and what is sent for it is  *)
(* sent to its chat only: the first parts of its own turn's answer, in      *)
(* order and none left out between, and then at most one word on an error.  *)
(* Telegram answers a chat's messages in their order.                       *)
(* (messaging_gateway.py 76, telegram_gateway.py 162)                       *)
RepliesAreTheirTurns ==
    /\ \A m \in DOMAIN updates :
         LET list == sent[updates[m].chat]
             own == About(list, m)
             made == About(apiTurns, m)
         IN  /\ Cardinality(made) <= 1
             /\ made # {} => updates[m].allowed /\ updates[m].kind = "text"
             /\ ~updates[m].allowed => \A i \in own : list[i].item.what = "refused"
             /\ \A i \in own :
                  IF list[i].item.what = "part"
                  THEN list[i].item.n = Cardinality({j \in own : j <= i}) /\ made # {}
                  ELSE \A j \in own : j <= i
             /\ \A c \in Chats \ {updates[m].chat} : About(sent[c], m) = {}
    /\ platform = "telegram" =>
         \A c \in Chats : \A i, j \in DOMAIN sent[c] : i < j => sent[c][i].of <= sent[c][j].of
=============================================================================
