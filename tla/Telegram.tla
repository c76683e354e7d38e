-------------------------------- MODULE Telegram --------------------------------
(***************************************************************************)
(* The Telegram connector: a worker process that polls Telegram            *)
(* (telegram_connector/worker.py) and passes messages on over IPC, and the *)
(* connector in the main process that answers them one after the other     *)
(* (telegram_connector.py), from commands or from the chat back end.  The  *)
(* stand-alone bot (subprojects/telegram_bot) asks a hort over a control   *)
(* WebSocket, by numbered requests (hort_client.py).                       *)
(***************************************************************************)
EXTENDS Integers, Sequences, FiniteSets

CONSTANTS
  Person,
  Allowed,      \* allowed_users; everybody when it is empty
  Policy,       \* [Person -> "none": no user of the configuration matches, else
                \*            "plain", "shared" or "isolated", its group's session]
  MaxMessages, MaxAttempts, MaxLosses, MaxContexts, MaxRequests,   \* bounds, but
                \* for MaxAttempts: the worker's attempts to poll
  None

\* What the constants have to be.
TelegramAssumption ==
  Allowed \subseteq Person
  /\ {MaxMessages, MaxAttempts, MaxLosses, MaxContexts, MaxRequests} \subseteq Nat

Kinds == {"chat", "new", "restart", "command", "callback"}
Text == 1..MaxMessages
Request == 1..MaxRequests
Key == {"id", "user", "shared", "telegram"} \X Person   \* of a session of the back end

VARIABLES
  polling,    \* the worker: 0: not yet, n: attempt n, None: given up
  ipc,        \* the worker and the main process are connected
  losses,     \* IPC connections lost so far
  sent,       \* messages people have sent
  pipe,       \* on their way to the main process
  dropped,    \* messages the worker took and could not pass on
  handling,   \* None or the message the connector is at
  sessions,   \* [Key -> context of the back end, 0: none]
  contexts,   \* contexts begun
  renew,      \* people told "New chat session started." who have not chatted since
  spoke,      \* [Person -> the context that answered the last chat, 0: none]
  out,        \* replies on their way to the worker
  told,       \* replies delivered: [to, of]
  asked, request, reader   \* the bot: requests made, [Request -> state], its read loop

chat == <<sessions, contexts, renew, spoke>>
bot == <<asked, request, reader>>
vars == <<polling, ipc, losses, sent, pipe, dropped, handling, chat, out, told, bot>>

Message(n, p, k) == [of |-> n, who |-> p, kind |-> k]
Reply(p, n) == [to |-> p, of |-> n]

-----------------------------------------------------------------------------
(* The worker                                                              *)

\* on_connected: polling starts once; polling that failed starts anew
Connected ==
  /\ ~ipc /\ ipc' = TRUE
  /\ polling' = IF polling \in {0, None} THEN 1 ELSE polling
  /\ UNCHANGED <<losses, sent, pipe, dropped, handling, chat, out, told, bot>>

\* on_disconnected: what is under way in either direction is gone
Disconnected ==
  /\ ipc /\ losses < MaxLosses /\ losses' = losses + 1 /\ ipc' = FALSE
  /\ pipe' = <<>> /\ out' = <<>>
  /\ UNCHANGED <<polling, sent, dropped, handling, chat, told, bot>>

\* start_polling fails: after a conflict another attempt, else none
PollingFails ==
  /\ polling \in 1..MaxAttempts
  /\ \/ polling < MaxAttempts /\ polling' = polling + 1
     \/ polling' = None
  /\ UNCHANGED <<ipc, losses, sent, pipe, dropped, handling, chat, out, told, bot>>

\* on_message, on_callback
Receive(p, k) ==
  /\ polling \in 1..MaxAttempts /\ sent < MaxMessages /\ sent' = sent + 1
  /\ IF ipc THEN pipe' = Append(pipe, Message(sent + 1, p, k)) /\ UNCHANGED dropped
     ELSE dropped' = dropped \cup {sent + 1} /\ UNCHANGED pipe
  /\ UNCHANGED <<polling, ipc, losses, handling, chat, out, told, bot>>

\* _send_telegram, _send_photo
Deliver ==
  /\ ipc /\ out # <<>> /\ out' = Tail(out) /\ told' = told \cup {Head(out)}
  /\ UNCHANGED <<polling, ipc, losses, sent, pipe, dropped, handling, chat, bot>>

-----------------------------------------------------------------------------
(* The connector                                                           *)

\* _handle_worker_message: people who are not allowed get no answer
Take ==
  LET m == Head(pipe)
  IN  /\ ipc /\ handling = None /\ pipe # <<>> /\ pipe' = Tail(pipe)
      /\ handling' = IF Allowed # {} /\ m.who \notin Allowed THEN None ELSE m
      /\ UNCHANGED <<polling, ipc, losses, sent, dropped, chat, out, told, bot>>

\* _send_via_worker: nothing is sent while the worker is not connected
Answers(m) == out' = IF ipc THEN Append(out, Reply(m.who, m.of)) ELSE out

Done(m) == Answers(m) /\ handling' = None

\* the session _handle_chat uses
KeyOf(p) == CASE Policy[p] = "none" -> <<"id", p>>
              [] Policy[p] = "plain" -> <<"user", p>>
              [] Policy[p] = "shared" -> <<"shared", p>>
              [] Policy[p] = "isolated" -> <<"telegram", p>>

\* _handle_chat
Chat ==
  LET m == handling
      k == KeyOf(m.who)
      c == IF sessions[k] = 0 THEN contexts + 1 ELSE sessions[k]
  IN  /\ m # None /\ m.kind = "chat" /\ c <= MaxContexts
      /\ sessions' = [sessions EXCEPT ![k] = c]
      /\ contexts' = IF c > contexts THEN c ELSE contexts
      /\ renew' = renew \ {m.who}
      /\ spoke' = [spoke EXCEPT ![m.who] = c]
      /\ Done(m)
      /\ UNCHANGED <<polling, ipc, losses, sent, pipe, dropped, told, bot>>

\* on_progress while the back end thinks
Progress ==
  /\ handling # None /\ handling.kind = "chat" /\ Len(out) = 0 /\ Answers(handling)
  /\ UNCHANGED <<polling, ipc, losses, sent, pipe, dropped, handling, chat, told, bot>>

\* _cmd_new: the session under the user id is reset
New ==
  /\ handling # None /\ handling.kind = "new"
  /\ sessions' = [sessions EXCEPT ![<<"id", handling.who>>] = 0]
  /\ renew' = renew \cup {handling.who}
  /\ Done(handling)
  /\ UNCHANGED <<polling, ipc, losses, sent, pipe, dropped, contexts, spoke, told, bot>>

\* /hort restart (hort_chief): the containers restart, all sessions are cleared
HortRestart ==
  /\ handling # None /\ handling.kind = "restart"
  /\ sessions' = [k \in Key |-> 0] /\ Done(handling)
  /\ UNCHANGED <<polling, ipc, losses, sent, pipe, dropped, contexts, renew, spoke, told, bot>>

\* _handle, _handle_callback and the commands without an effect here; a callback
\* nobody takes is not answered
Command ==
  /\ handling # None /\ handling.kind \in {"command", "callback"}
  /\ \/ Done(handling)
     \/ handling.kind = "callback" /\ handling' = None /\ UNCHANGED out
  /\ UNCHANGED <<polling, ipc, losses, sent, pipe, dropped, chat, told, bot>>

-----------------------------------------------------------------------------
(* The bot's client                                                        *)

Ask(r) ==
  /\ r = asked + 1 /\ asked' = r /\ request' = [request EXCEPT ![r] = "waits"]
  /\ UNCHANGED <<polling, ipc, losses, sent, pipe, dropped, handling, chat, out, told, reader>>

\* _read_loop: a future that was cancelled cannot take the answer, which ends the loop
HortAnswers(r) ==
  /\ reader = "reads" /\ request[r] \in {"waits", "cancelled"}
  /\ IF request[r] = "waits" THEN request' = [request EXCEPT ![r] = "answered"] /\ UNCHANGED reader
     ELSE reader' = "failed" /\ UNCHANGED request
  /\ UNCHANGED <<polling, ipc, losses, sent, pipe, dropped, handling, chat, out, told, asked>>

\* wait_for cancels the future; _pending loses it when the caller runs again
AskTimesOut(r) ==
  /\ request[r] = "waits" /\ request' = [request EXCEPT ![r] = "cancelled"]
  /\ UNCHANGED <<polling, ipc, losses, sent, pipe, dropped, handling, chat, out, told, asked, reader>>

AskFails(r) ==
  /\ request[r] = "cancelled" /\ request' = [request EXCEPT ![r] = "failed"]
  /\ UNCHANGED <<polling, ipc, losses, sent, pipe, dropped, handling, chat, out, told, asked, reader>>

CloseClient ==
  /\ reader # "closed" /\ reader' = "closed"
  /\ request' = [r \in Request |-> IF request[r] \in {"waits", "cancelled"} THEN "failed" ELSE request[r]]
  /\ UNCHANGED <<polling, ipc, losses, sent, pipe, dropped, handling, chat, out, told, asked>>

-----------------------------------------------------------------------------
Init ==
  /\ polling = 0 /\ ipc = FALSE /\ losses = 0 /\ sent = 0 /\ pipe = <<>> /\ dropped = {}
  /\ handling = None /\ sessions = [k \in Key |-> 0] /\ contexts = 0
  /\ renew = {} /\ spoke = [p \in Person |-> 0]
  /\ out = <<>> /\ told = {}
  /\ asked = 0 /\ request = [r \in Request |-> "new"] /\ reader = "reads"

Next ==
  \/ Connected \/ Disconnected \/ PollingFails \/ Deliver \/ Take
  \/ \E p \in Person, k \in Kinds : Receive(p, k)
  \/ Chat \/ Progress \/ New \/ HortRestart \/ Command
  \/ \E r \in Request : Ask(r) \/ HortAnswers(r) \/ AskTimesOut(r) \/ AskFails(r)
  \/ CloseClient

Spec == Init /\ [][Next]_vars

-----------------------------------------------------------------------------
(* Properties                                                              *)

\* Polling attempts and lost connections stay within their bounds.
TelegramTypeOK ==
  /\ polling \in 0..MaxAttempts \cup {None} /\ ipc \in BOOLEAN /\ losses \in 0..MaxLosses
  /\ sent \in 0..MaxMessages /\ dropped \subseteq Text
  /\ pipe \in Seq([of : Text, who : Person, kind : Kinds])
  /\ handling \in [of : Text, who : Person, kind : Kinds] \cup {None}
  /\ sessions \in [Key -> 0..MaxContexts] /\ contexts \in 0..MaxContexts
  /\ renew \subseteq Person /\ spoke \in [Person -> 0..MaxContexts]
  /\ out \in Seq([to : Person, of : Text]) /\ told \subseteq [to : Person, of : Text]
  /\ asked \in 0..MaxRequests /\ reader \in {"reads", "failed", "closed"}
  /\ request \in [Request -> {"new", "waits", "cancelled", "answered", "failed"}]

\* _cmd_new, "Reset chat session for this user.": the first chat after it is not
\* answered from the context of the last one before it.
NewStartsOver ==
  \A p \in Person : p \in renew /\ p \notin renew' => spoke'[p] # spoke[p]
=============================================================================
