------------------------------- MODULE Peers -------------------------------
(***************************************************************************)
(* Two agents in two containers that work together                         *)
(* (hort/sandbox/peer_orchestrator.py).  They talk through a directory     *)
(* that the orchestrator and one broker process per peer                   *)
(* (hort/sandbox/peer_broker.py) read and write: an inbox and a status     *)
(* file for each peer.  The orchestrator runs one turn of one peer at a    *)
(* time; the tools of the broker are called within a turn.                 *)
(***************************************************************************)
EXTENDS Naturals, Sequences, SequencesExt

CONSTANTS
  MaxTurns, \* max_turns
  MaxSends, \* bound: messages a peer sends
  SameMs    \* may a peer send two messages within a millisecond?

\* What the constants have to be.
PeersAssumption == MaxTurns \in Nat \ {0} /\ MaxSends \in Nat /\ SameMs \in BOOLEAN

Peer == {"A", "B"}
Other(p) == IF p = "A" THEN "B" ELSE "A"

VARIABLES
  at,      \* _run_loop: "setup", a peer whose turn is dispatched, "check", "over", "gone"
  running, \* a turn of peer `at` is under way
  turn,    \* turn
  pending, \* [Peer -> prompts: messages, Task, Nudge]
  done,    \* [Peer -> a_done, b_done]
  resume,  \* [Peer -> claude_session_x is known]
  inbox,   \* [Peer -> its unread files, by name]
  status,  \* [Peer -> its status file]
  sent,    \* [Peer -> messages it has sent]
  seen     \* [Peer -> messages that were in a prompt of it, or that it has read]

vars == <<at, running, turn, pending, done, resume, inbox, status, sent, seen>>

-----------------------------------------------------------------------------
(* The mailbox directory                                                   *)

Message(p, n) == [from |-> p, n |-> n]
Task  == Message("task", 0)
Nudge == Message("nudge", 0)

\* Mutant: the file is named for the sender only.
Delivered_OnePerSender(box, m, sameMs) ==
  Append(IF box # <<>> /\ Last(box).from = m.from THEN Front(box) ELSE box, m)

\* _send_message: the file is named for the millisecond and the sender, and a
\* rename onto an existing file replaces it.
Delivered(box, m, sameMs) == IF sameMs THEN Append(Front(box), m) ELSE Append(box, m)

SendMessage(p) ==
  /\ sent[p] < MaxSends
  /\ \E same \in BOOLEAN :
       /\ same => SameMs /\ inbox[Other(p)] # <<>> /\ Last(inbox[Other(p)]).from = p
       /\ inbox' = [inbox EXCEPT ![Other(p)] = Delivered(@, Message(p, sent[p] + 1), same)]
  /\ sent' = [sent EXCEPT ![p] = @ + 1]

-----------------------------------------------------------------------------
(* The tools of a peer's broker                                            *)

PeerSend(p) ==
  /\ running /\ at = p
  /\ SendMessage(p)
  /\ UNCHANGED <<at, running, turn, pending, done, resume, status, seen>>

\* peer_read, and peer_wait when there is something to read
PeerRead(p) ==
  /\ running /\ at = p /\ inbox[p] # <<>>
  /\ seen' = [seen EXCEPT ![p] = @ \cup ToSet(inbox[p])]
  /\ inbox' = [inbox EXCEPT ![p] = <<>>]
  /\ UNCHANGED <<at, running, turn, pending, done, resume, status, sent>>

PeerDone(p) ==
  /\ running /\ at = p
  /\ status' = [status EXCEPT ![p] = "done"]
  /\ SendMessage(p)
  /\ UNCHANGED <<at, running, turn, pending, done, resume, seen>>

PeerSetStatus(p) ==
  /\ running /\ at = p
  /\ \E s \in {"idle", "busy"} : status' = [status EXCEPT ![p] = s]
  /\ UNCHANGED <<at, running, turn, pending, done, resume, inbox, sent, seen>>

-----------------------------------------------------------------------------
(* The orchestrator                                                        *)

\* run(): the brokers have started.
Setup ==
  /\ at = "setup" /\ at' = "A" /\ turn' = 1
  /\ status' = [p \in Peer |-> "idle"]
  /\ pending' = [p \in Peer |-> <<Task>>]
  /\ UNCHANGED <<running, done, resume, inbox, sent, seen>>

\* run(): a docker command fails before the try, and nothing is cleaned up.
SetupFails ==
  /\ at = "setup" /\ at' = "gone"
  /\ UNCHANGED <<running, turn, pending, done, resume, inbox, status, sent, seen>>

StartTurn(p) ==
  /\ at = p /\ ~running /\ pending[p] # <<>> /\ ~done[p]
  /\ running' = TRUE
  /\ seen' = [seen EXCEPT ![p] = @ \cup (ToSet(pending[p]) \ {Task, Nudge})]
  /\ pending' = [pending EXCEPT ![p] = <<>>]
  /\ status' = [status EXCEPT ![p] = "busy"]
  /\ UNCHANGED <<at, turn, done, resume, inbox, sent>>

Following(p) == IF p = "A" THEN "B" ELSE "check"

\* _read_messages for the other peer, and on
Handover(p) ==
  /\ pending' = [pending EXCEPT ![Other(p)] = @ \o inbox[Other(p)]]
  /\ inbox' = [inbox EXCEPT ![Other(p)] = <<>>]
  /\ at' = Following(p)

\* The status after a turn: the peer's own "done" is read before it is overwritten.
AfterTurn(p, saysSo) ==
  /\ done' = [done EXCEPT ![p] = status[p] = "done" \/ saysSo]
  /\ status' = [status EXCEPT ![p] = IF done'[p] THEN @ ELSE "idle"]

\* The agent's process has ended.  Its text may say that it is done, and it may
\* have failed without a session id.
EndTurn(p) ==
  /\ at = p /\ running
  /\ running' = FALSE
  /\ \E saysSo \in BOOLEAN : AfterTurn(p, saysSo)
  /\ \E ok \in BOOLEAN : resume' = [resume EXCEPT ![p] = @ \/ ok]
  /\ Handover(p)
  /\ UNCHANGED <<turn, sent, seen>>

SkipTurn(p) ==
  /\ at = p /\ ~running /\ (pending[p] = <<>> \/ done[p])
  /\ Handover(p)
  /\ UNCHANGED <<running, turn, done, resume, status, sent, seen>>

\* Mutant: only the peer that is not done is told, and nobody when both wait.
Nudged_OneDone(p) == done[Other(p)] /\ ~done[p] /\ pending[p] = <<>>

\* Told to wrap up because the other has finished, or because both have nothing
\* to do.
Nudged(p) ==
  /\ ~done[p] /\ pending[p] = <<>>
  /\ done[Other(p)] \/ pending[Other(p)] = <<>>

\* The end of the loop body and, if there is a next iteration, its beginning:
\* completion, the nudges, max_turns and the budget
CheckCompletion ==
  /\ at = "check"
  /\ IF \A p \in Peer : done[p]
     THEN at' = "over" /\ UNCHANGED <<turn, pending>>
     ELSE /\ pending' = [p \in Peer |-> IF Nudged(p) THEN <<Nudge>> ELSE pending[p]]
          /\ \/ turn < MaxTurns /\ at' = "A" /\ turn' = turn + 1
             \/ at' = "over" /\ UNCHANGED turn
  /\ UNCHANGED <<running, done, resume, inbox, status, sent, seen>>

\* An exception, or the user's interrupt, in a turn
Abort ==
  /\ running
  /\ running' = FALSE /\ at' = "over"
  /\ UNCHANGED <<turn, pending, done, resume, inbox, status, sent, seen>>

\* _cleanup: proxies, containers, the shared volume
Cleanup ==
  /\ at = "over" /\ at' = "gone"
  /\ UNCHANGED <<running, turn, pending, done, resume, inbox, status, sent, seen>>

-----------------------------------------------------------------------------
Init ==
  /\ at = "setup" /\ running = FALSE /\ turn = 0
  /\ pending = [p \in Peer |-> <<>>] /\ inbox = [p \in Peer |-> <<>>]
  /\ done = [p \in Peer |-> FALSE] /\ resume = [p \in Peer |-> FALSE]
  /\ status = [p \in Peer |-> "none"]
  /\ sent = [p \in Peer |-> 0] /\ seen = [p \in Peer |-> {}]

Next ==
  \/ \E p \in Peer : \/ PeerSend(p) \/ PeerRead(p) \/ PeerDone(p) \/ PeerSetStatus(p)
                     \/ StartTurn(p) \/ EndTurn(p) \/ SkipTurn(p)
  \/ Setup \/ SetupFails \/ CheckCompletion \/ Abort \/ Cleanup

Spec == Init /\ [][Next]_vars

-----------------------------------------------------------------------------
\* Turns, inboxes and status files have their shape.
PeersTypeOK ==
  /\ at \in Peer \cup {"setup", "check", "over", "gone"} /\ running \in BOOLEAN
  /\ turn \in 0..MaxTurns /\ done \in [Peer -> BOOLEAN] /\ resume \in [Peer -> BOOLEAN]
  /\ status \in [Peer -> {"none", "idle", "busy", "done"}]
  /\ sent \in [Peer -> 0..MaxSends]

\* A message reaches the agent it was sent to: it is in the directory, waits for
\* the next prompt, or has been shown.
NothingLost ==
  \A p \in Peer : \A n \in 1..sent[p] :
    Message(p, n) \in ToSet(inbox[Other(p)]) \cup ToSet(pending[Other(p)]) \cup seen[Other(p)]

\* No iteration of the loop passes with neither peer at work.
SomebodyWorks == at = "A" /\ ~running => \E p \in Peer : pending[p] # <<>> /\ ~done[p]

=============================================================================
