---------------------------------- MODULE Wire ----------------------------------
(***************************************************************************)
(* The built-in chat (llmings/core/llming_wire): a page that keeps its     *)
(* conversations in IndexedDB (static/cards.js), and the server that       *)
(* answers from the chat back end's sessions (llming_wire.py).  Every      *)
(* method of the page reads its fields again after each await.             *)
(***************************************************************************)
EXTENDS Integers, FiniteSets

CONSTANTS
  Conv,         \* ids of conversations in the browser
  Patient,      \* the user waits for a conversation to open and for the answer
  MaxSends, MaxServer, MaxSession, MaxRestarts,   \* bounds
  None

\* What the constants have to be.
WireAssumption ==
  /\ Patient \in BOOLEAN /\ None \notin Conv
  /\ {MaxSends, MaxServer, MaxSession, MaxRestarts} \subseteq Nat

Question == 1..MaxSends
Roles == {"user", "ai"}

VARIABLES
  db,        \* IndexedDB: [Conv -> its record; kept: it is there]
  fresh,     \* ids not used yet
  said,      \* messages stored: conversation, role, the question or what answers it
  asked,     \* [Question -> the conversation it was typed in, or None]
  active, serverConvId, sessionId,   \* the page's fields
  opening,   \* switchConversation calls under way
  sending,   \* None or the send() under way
  calling,   \* None or the question whose button was pressed
  conversations,   \* the server's, made so far
  context,   \* [its conversations -> session of the chat back end, 0: none]
  heard,     \* [session -> questions put to it]
  made, restarts

page == <<active, serverConvId, sessionId>>
server == <<conversations, context, heard, made, restarts>>
vars == <<db, fresh, said, asked, page, opening, sending, calling, server>>

Record(srv, ses, kept) == [server |-> srv, session |-> ses, kept |-> kept]
Message(c, role, q) == [cid |-> c, role |-> role, of |-> q]
Idle == opening = {} /\ sending = None /\ calling = None

-----------------------------------------------------------------------------
(* Conversations of the page                                               *)

\* switchConversation sets activeConvId at once
Switch(c) ==
  /\ active' = c /\ opening' = opening \cup {[conv |-> c, stage |-> "loads"]}

NewConversation(c) ==
  /\ c \in fresh /\ (Patient => Idle) /\ Cardinality(opening) < 2
  /\ fresh' = fresh \ {c} /\ db' = [db EXCEPT ![c] = Record(0, 0, TRUE)]
  /\ Switch(c)
  /\ UNCHANGED <<said, asked, serverConvId, sessionId, sending, calling, server>>

SwitchConversation(c) ==
  /\ db[c].kept /\ active # None /\ (Patient => Idle) /\ Cardinality(opening) < 2
  /\ Switch(c)
  /\ UNCHANGED <<db, fresh, said, asked, serverConvId, sessionId, sending, calling, server>>

\* Mutant: the conversation that is opened keeps the server's conversation in use.
Fields_Kept(c) == sessionId' = db[c].session /\ serverConvId' = serverConvId

\* sessionId and serverConvId, once the record has been read
Fields(c) == sessionId' = db[c].session /\ serverConvId' = db[c].server

Opened(o) ==
  /\ o \in opening /\ o.stage = "loads" /\ Fields(o.conv)
  /\ opening' = (opening \ {o}) \cup
                (IF serverConvId' = 0 THEN {[o EXCEPT !.stage = "creates"]} ELSE {})
  /\ UNCHANGED <<db, fresh, said, asked, active, sending, calling, server>>

Created == conversations < MaxServer /\ conversations' = conversations + 1

\* its own POST of a conversation, or offline
ServerSide(o) ==
  /\ o \in opening /\ o.stage = "creates" /\ opening' = opening \ {o}
  /\ \/ /\ Created /\ serverConvId' = conversations'
        /\ db' = [db EXCEPT ![o.conv] = Record(conversations', @.session, TRUE)]
     \/ UNCHANGED <<conversations, serverConvId, db>>
  /\ UNCHANGED <<fresh, said, asked, active, sessionId, sending, calling, context, heard, made, restarts>>

\* then another conversation is opened, a new one if there is none
DeleteConversation(c) ==
  LET left == [db EXCEPT ![c] = Record(0, 0, FALSE)]
      others == {d \in Conv \ {c} : db[d].kept}
  IN  /\ db[c].kept /\ (Patient => Idle) /\ Cardinality(opening) < 2
      /\ said' = {m \in said : m.cid # c}
      /\ \/ active # c /\ db' = left /\ UNCHANGED <<active, opening, fresh>>
         \/ active = c /\ db' = left /\ UNCHANGED fresh /\ \E d \in others : Switch(d)
         \/ /\ active = c /\ others = {}
            /\ \E d \in fresh : /\ db' = [left EXCEPT ![d] = Record(0, 0, TRUE)]
                               /\ fresh' = fresh \ {d} /\ Switch(d)
      /\ UNCHANGED <<asked, serverConvId, sessionId, sending, calling, server>>

\* The page is loaded anew; the most recent conversation opens.
Mounted(c) ==
  /\ db[c].kept /\ active' = c /\ opening' = {[conv |-> c, stage |-> "loads"]}
  /\ serverConvId' = 0 /\ sessionId' = 0 /\ sending' = None /\ calling' = None
  /\ UNCHANGED <<db, fresh, said, asked, server>>

-----------------------------------------------------------------------------
(* send()                                                                  *)

Send(q) ==
  /\ active # None /\ sending = None /\ calling = None /\ (Patient => Idle)
  /\ asked[q] = None /\ \A r \in Question : r < q => asked[r] # None
  /\ asked' = [asked EXCEPT ![q] = active]
  /\ said' = said \cup {Message(active, "user", q)}
  /\ sending' = [of |-> q, stage |-> "saved", conv |-> active, held |-> Record(0, 0, FALSE), to |-> 0]
  /\ UNCHANGED <<db, fresh, page, opening, calling, server>>

\* conv = await dbGet(..., activeConvId)
Fetched ==
  /\ sending # None /\ sending.stage = "saved"
  /\ sending' = [sending EXCEPT !.stage = "fetched", !.conv = active, !.held = db[active]]
  /\ UNCHANGED <<db, fresh, said, asked, page, opening, calling, server>>

\* the record it held goes back into the database
Stored(c, held) == IF held.kept THEN [db EXCEPT ![c] = held] ELSE db

\* the server conversation exists by now, or is made; then the question is posted
Posted ==
  /\ sending # None /\ sending.stage = "fetched"
  /\ \/ /\ serverConvId # 0 /\ sending' = [sending EXCEPT !.stage = "posted", !.to = serverConvId]
        /\ UNCHANGED <<db, serverConvId, conversations>>
     \/ /\ serverConvId = 0 /\ Created /\ serverConvId' = conversations'
        /\ LET held == [sending.held EXCEPT !.server = conversations']
           IN  /\ db' = Stored(sending.conv, held)
               /\ sending' = [sending EXCEPT !.stage = "posted", !.to = conversations', !.held = held]
  /\ UNCHANGED <<fresh, said, asked, active, sessionId, opening, calling, context, heard, made, restarts>>

\* send_message on the server: the session of this conversation, or a new one; the
\* session the page names is not looked at.
Session(to) == IF context[to] # 0 THEN context[to] ELSE made + 1

Answer ==
  LET s == Session(sending.to)
  IN  /\ sending # None /\ sending.stage = "posted" /\ s <= MaxSession
      /\ made' = IF s > made THEN s ELSE made
      /\ context' = [context EXCEPT ![sending.to] = s]
      /\ heard' = [heard EXCEPT ![s] = @ \cup {sending.of}]
      /\ sending' = [sending EXCEPT !.stage = "answered", !.held.session = s]
      /\ UNCHANGED <<db, fresh, said, asked, page, opening, calling, conversations, restarts>>

\* the answer is stored under activeConvId, the record under the id it was read with
Show ==
  /\ sending # None /\ sending.stage = "answered"
  /\ IF sending.held.kept THEN sessionId' = sending.held.session ELSE sessionId' = sessionId
  /\ db' = Stored(sending.conv, sending.held)
  /\ said' = said \cup {Message(active, "ai", sending.of)} /\ sending' = None
  /\ UNCHANGED <<fresh, asked, active, serverConvId, opening, calling, server>>

\* the request fails: an error is shown
Fail ==
  /\ sending # None /\ sending.stage \in {"fetched", "posted"} /\ sending' = None
  /\ said' = said \cup {Message(active, "ai", sending.of)}
  /\ UNCHANGED <<db, fresh, asked, page, opening, calling, server>>

\* "/new": a command is answered without the AI; the session is reset
Reset ==
  /\ Idle /\ serverConvId # 0 /\ context[serverConvId] # 0
  /\ context' = [context EXCEPT ![serverConvId] = 0]
  /\ UNCHANGED <<db, fresh, said, asked, page, opening, sending, calling, conversations, heard, made, restarts>>

-----------------------------------------------------------------------------
(* Buttons, and the server                                                 *)

Press(q) ==
  /\ calling = None /\ (Patient => Idle) /\ Message(active, "ai", q) \in said /\ asked[q] = active
  /\ calling' = q
  /\ UNCHANGED <<db, fresh, said, asked, page, opening, sending, server>>

Called ==
  /\ calling # None /\ calling' = None
  /\ said' = said \cup {Message(active, "ai", calling)}
  /\ UNCHANGED <<db, fresh, asked, page, opening, sending, server>>

Restart ==
  /\ restarts < MaxRestarts /\ restarts' = restarts + 1
  /\ context' = [i \in DOMAIN context |-> 0]
  /\ UNCHANGED <<db, fresh, said, asked, page, opening, sending, calling, conversations, heard, made>>

-----------------------------------------------------------------------------
Init ==
  /\ db = [c \in Conv |-> Record(0, 0, FALSE)] /\ fresh = Conv /\ said = {}
  /\ asked = [q \in Question |-> None]
  /\ active = None /\ serverConvId = 0 /\ sessionId = 0
  /\ opening = {} /\ sending = None /\ calling = None
  /\ conversations = 0 /\ context = [i \in 1..MaxServer |-> 0]
  /\ heard = [s \in 1..MaxSession |-> {}] /\ made = 0 /\ restarts = 0

Next ==
  \/ \E c \in Conv : NewConversation(c) \/ SwitchConversation(c) \/ DeleteConversation(c) \/ Mounted(c)
  \/ \E o \in opening : Opened(o) \/ ServerSide(o)
  \/ \E q \in Question : Send(q) \/ Press(q)
  \/ Fetched \/ Posted \/ Answer \/ Show \/ Fail \/ Reset \/ Called \/ Restart

Spec == Init /\ [][Next]_vars

-----------------------------------------------------------------------------
(* Properties                                                              *)

\* The database and the page hold conversations and sessions that were given out.
WireTypeOK ==
  /\ db \in [Conv -> [server : 0..MaxServer, session : 0..MaxSession, kept : BOOLEAN]]
  /\ fresh \subseteq Conv /\ said \subseteq [cid : Conv, role : Roles, of : Question]
  /\ asked \in [Question -> Conv \cup {None}] /\ active \in Conv \cup {None}
  /\ serverConvId \in 0..MaxServer /\ sessionId \in 0..MaxSession
  /\ opening \subseteq [conv : Conv, stage : {"loads", "creates"}]
  /\ calling \in Question \cup {None} /\ conversations \in 0..MaxServer
  /\ context \in [1..MaxServer -> 0..MaxSession] /\ heard \in [1..MaxSession -> SUBSET Question]
  /\ made \in 0..MaxSession /\ restarts \in 0..MaxRestarts

\* What a conversation shows is its own: answers stand where the question was typed,
\* and a session of the back end has heard the questions of one conversation only.
Private ==
  /\ \A m \in said : asked[m.of] = m.cid
  /\ \A s \in DOMAIN heard : Cardinality({asked[q] : q \in heard[s]}) <= 1

\* "Save session_id for --resume on reconnect": an answer carries on the session
\* that the page holds for the conversation.
Resumes == [][(sending # None /\ sending' # None /\ sending.stage = "posted" /\ sending'.stage = "answered"
               /\ sending.held.session # 0)
              => sending'.held.session = sending.held.session]_vars
=============================================================================
