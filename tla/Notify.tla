------------------------------- MODULE Notify -------------------------------
(***************************************************************************)
(* The Worker's preview and Telegram path: deliverPreviewAndTelegram and   *)
(* sendTelegramForCache of worker/src/index.ts, the KV accesses of         *)
(* worker/src/db, the Telegram client and the preview route, over several  *)
(* invocations of email() that may carry the same mail.                    *)
(*                                                                         *)
(* KV is a map with expiry that is eventually consistent: a read may miss  *)
(* a value that was just written.  A mail's dedup key is its Message-ID,   *)
(* or its hash when it has none, so two mails can share a key.             *)
(***************************************************************************)
EXTENDS Integers

CONSTANTS
    Invocation,    \* runs of email(), each with its own cache.id
    Raw,           \* raw mails
    NoID,          \* stands for a missing, blank or "unknown" Message-ID
    MessageID,     \* the Message-ID header of a mail, or NoID
    Chats,         \* number of chat ids in TELEGRAM_ID
    TelegramOn,    \* are TELEGRAM_TOKEN and TELEGRAM_ID set?
    TTL,           \* MAIL_TTL, in ticks
    MaxTime,       \* bound: ticks of the clock
    MaxTrouble     \* bound: KV and Telegram calls that go wrong

ASSUME NotifyAssumption ==
    /\ Chats \in Nat /\ TTL \in Nat \ {0} /\ MaxTime \in Nat /\ MaxTrouble \in Nat
    /\ TelegramOn \in BOOLEAN

VARIABLES
    mail,          \* the mail each invocation is called with
    npc,           \* where deliverPreviewAndTelegram is
    chat,          \* the chat the loop is at
    anyOk,         \* did some sendMessage of this invocation succeed?
    preview,       \* KV: expiry of the preview of an invocation, 0 if none
    marker,        \* KV: expiry of tg-sent:<key>, 0 if none
    clock,         \* time
    told,          \* <<i, c>>: Telegram showed chat c the message of i
    trouble        \* KV and Telegram calls that went wrong

kv == <<preview, marker>>
vars == <<mail, npc, chat, anyOk, preview, marker, clock, told, trouble>>

NPC == {"new", "save", "lookup", "send", "mark", "done"}

\* telegramSentKey
SentKey(m) == IF MessageID[m] = NoID THEN m ELSE MessageID[m]
Keys == {SentKey(m) : m \in Raw}

\* A KV entry is readable until it expires.
Live(expiry) == clock < expiry
Expiry == clock + TTL                   \* expirationTtl: getDefaultMailTtl(env)

Init ==
    /\ mail \in [Invocation -> Raw]
    /\ npc = [i \in Invocation |-> "new"]
    /\ chat = [i \in Invocation |-> 1]
    /\ anyOk = [i \in Invocation |-> FALSE]
    /\ preview = [i \in Invocation |-> 0]
    /\ marker = [k \in Keys |-> 0]
    /\ clock = 0
    /\ told = {}
    /\ trouble = 0

Goto(i, there) == npc' = [npc EXCEPT ![i] = there]
Trouble == trouble < MaxTrouble /\ trouble' = trouble + 1

\* Mutant: nothing is cached before the announcement.
StartMutant(i) ==
    /\ npc[i] = "new"
    /\ Goto(i, "lookup")
    /\ UNCHANGED <<mail, chat, anyOk, kv, clock, told, trouble>>

\* email() calls deliverPreviewAndTelegram with the collected mail.
Start(i) ==
    /\ npc[i] = "new"
    /\ Goto(i, "save")
    /\ UNCHANGED <<mail, chat, anyOk, kv, clock, told, trouble>>

AfterSave(i) == Goto(i, IF TelegramOn THEN "lookup" ELSE "done")

SavePreview(i) ==
    /\ npc[i] = "save"
    /\ preview' = [preview EXCEPT ![i] = Expiry]
    /\ AfterSave(i)
    /\ UNCHANGED <<mail, chat, anyOk, marker, clock, told, trouble>>

\* Logged and swallowed: the announcement goes out with a dead link.
SavePreviewFails(i) ==
    /\ npc[i] = "save"
    /\ Trouble
    /\ AfterSave(i)
    /\ UNCHANGED <<mail, chat, anyOk, kv, clock, told>>

Marked(i) == Live(marker[SentKey(mail[i])])

LookUpMarker(i) ==
    /\ npc[i] = "lookup"
    /\ Goto(i, IF Marked(i) THEN "done" ELSE "send")
    /\ UNCHANGED <<mail, chat, anyOk, kv, clock, told, trouble>>

\* "Telegram dedup lookup failed; sending anyway", or KV has not caught up.
LookUpMisses(i) ==
    /\ npc[i] = "lookup"
    /\ Marked(i)
    /\ Trouble
    /\ Goto(i, "send")
    /\ UNCHANGED <<mail, chat, anyOk, kv, clock, told>>

\* Mutant: the loop runs one past the last chat id.
SendMessageMutant(i, shown, ok) ==
    /\ npc[i] = "send"
    /\ chat[i] <= Chats + 1
    /\ told' = IF shown THEN told \cup {<<i, chat[i]>>} ELSE told
    /\ anyOk' = [anyOk EXCEPT ![i] = @ \/ ok]
    /\ chat' = [chat EXCEPT ![i] = @ + 1]
    /\ UNCHANGED <<mail, npc, kv, clock>>

\* One turn of the loop over the chat ids.
SendMessage(i, shown, ok) ==
    /\ npc[i] = "send"
    /\ chat[i] <= Chats
    /\ told' = IF shown THEN told \cup {<<i, chat[i]>>} ELSE told
    /\ anyOk' = [anyOk EXCEPT ![i] = @ \/ ok]
    /\ chat' = [chat EXCEPT ![i] = @ + 1]
    /\ UNCHANGED <<mail, npc, kv, clock>>

Sent(i) == SendMessage(i, TRUE, TRUE) /\ UNCHANGED trouble

\* Telegram refuses, or is not reached; or it shows the message and the
\* answer is lost on the way back.
NotSent(i)  == SendMessage(i, FALSE, FALSE) /\ UNCHANGED trouble
SentUnseen(i) == SendMessage(i, TRUE, FALSE) /\ Trouble

\* Mutant: the marker is written although no chat was reached.
EndOfLoopMutant(i) ==
    /\ npc[i] = "send"
    /\ chat[i] > Chats
    /\ Goto(i, "mark")
    /\ UNCHANGED <<mail, chat, anyOk, kv, clock, told, trouble>>

EndOfLoop(i) ==
    /\ npc[i] = "send"
    /\ chat[i] > Chats
    /\ Goto(i, IF anyOk[i] THEN "mark" ELSE "done")
    /\ UNCHANGED <<mail, chat, anyOk, kv, clock, told, trouble>>

\* Mutant: the marker lives a little shorter than the preview.
WriteMarkerMutant(i) ==
    /\ npc[i] = "mark"
    /\ marker' = [marker EXCEPT ![SentKey(mail[i])] = Expiry - 1]
    /\ Goto(i, "done")
    /\ UNCHANGED <<mail, chat, anyOk, preview, clock, told, trouble>>

WriteMarker(i) ==
    /\ npc[i] = "mark"
    /\ marker' = [marker EXCEPT ![SentKey(mail[i])] = Expiry]
    /\ Goto(i, "done")
    /\ UNCHANGED <<mail, chat, anyOk, preview, clock, told, trouble>>

WriteMarkerFails(i) ==
    /\ npc[i] = "mark"
    /\ Trouble
    /\ Goto(i, "done")
    /\ UNCHANGED <<mail, chat, anyOk, kv, clock, told>>

\* The runtime drops the invocation, wherever it is.
Evict(i) ==
    /\ npc[i] \notin {"new", "done"}
    /\ Trouble
    /\ Goto(i, "done")
    /\ UNCHANGED <<mail, chat, anyOk, kv, clock, told>>

Tick ==
    /\ clock < MaxTime
    /\ clock' = clock + 1
    /\ UNCHANGED <<mail, npc, chat, anyOk, kv, told, trouble>>

\* GET /email/:id?mode=text|html: 200 while the preview is in KV, else 404.
FetchStatus(i, mode) ==
    IF mode \in {"text", "html"} /\ Live(preview[i]) THEN "200" ELSE "404"

\* What the Worker does by itself, and what it waits for.
WorkerStep(i) ==
    \/ SavePreview(i) \/ SavePreviewFails(i)
    \/ LookUpMarker(i) \/ LookUpMisses(i)
    \/ EndOfLoop(i)
    \/ WriteMarker(i) \/ WriteMarkerFails(i)
TelegramStep(i) == Sent(i) \/ NotSent(i) \/ SentUnseen(i)

Next ==
    \/ Tick
    \/ \E i \in Invocation :
         Start(i) \/ WorkerStep(i) \/ TelegramStep(i) \/ Evict(i)

Spec == Init /\ [][Next]_vars

-----------------------------------------------------------------------------
\* Every variable of the path has its type.
TypeOK ==
    /\ mail \in [Invocation -> Raw]
    /\ npc \in [Invocation -> NPC]
    /\ chat \in [Invocation -> 1..Chats + 1]
    /\ anyOk \in [Invocation -> BOOLEAN]
    /\ preview \in [Invocation -> Nat]
    /\ marker \in [Keys -> Nat]
    /\ clock \in Nat
    /\ told \subseteq Invocation \X (1..Chats)
    /\ trouble \in 0..MaxTrouble

Told(i) == \E c \in 1..Chats : <<i, c>> \in told
SameKey(i, j) == i # j /\ SentKey(mail[i]) = SentKey(mail[j])

\* The marker is written after the preview and with the same TTL: while an
\* announced preview can still be read, a later invocation with the same key
\* does not announce the mail again, unless a KV or Telegram call went wrong.
NoRepeatWhilePreviewLives ==
    [][\A i, j \in Invocation :
         /\ npc[i] = "lookup" /\ npc'[i] = "send"
         /\ SameKey(i, j) /\ npc[j] = "done" /\ Told(j)
         /\ trouble' = 0
         => FetchStatus(j, "text") = "404"]_vars

\* A marker silences later invocations, so there is one only if Telegram has
\* shown the mail in some chat, whatever failed or was dropped before.
MarkerMeansTold ==
    \A k \in Keys : marker[k] # 0 =>
        \E i \in Invocation : SentKey(mail[i]) = k /\ Told(i)

\* The buttons of an announcement lead to a preview that was written before,
\* and the marker never expires before the preview it vouches for.
AnnouncedPreviewExists ==
    trouble = 0 =>
        \A i \in Invocation : Told(i) =>
            /\ preview[i] # 0
            /\ npc[i] = "done" /\ anyOk[i] => marker[SentKey(mail[i])] >= preview[i]
=============================================================================
