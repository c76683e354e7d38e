------------------------------- MODULE HostedApps --------------------------------
(***************************************************************************)
(* Hosted apps: instances of web apps in Docker containers                 *)
(* (llmings/core/hosted_apps/hosted_apps.py) and the reverse proxy in      *)
(* front of them (the hosted-app routes of hort/app.py).  Every operation  *)
(* runs in a thread of its own and its Docker commands take their time.    *)
(* What Docker holds is known by name; containers, volumes and the records *)
(* of instances are numbered here so that a later one can be told apart.   *)
(***************************************************************************)
EXTENDS Integers, FiniteSets

CONSTANTS
  Name, Thread, Port, Tab,
  MaxMade,   \* bound: containers ever made
  Failing,   \* may Docker refuse a start?
  Twice,     \* may an instance be destroyed once more while it is being destroyed?
  None

\* What the constants have to be.
HostedAppsAssumption == MaxMade \in Nat /\ {Failing, Twice} \subseteq BOOLEAN

VARIABLES
  container,   \* [Name -> number of its container, 0: none]
  volume,      \* [Name -> container its volume was first made for, 0: none]
  port,        \* [Name -> published port of a running container, or None]
  made,        \* containers ever made
  instance,    \* _instances: [Name -> [no, running]], no = 0: none
  thread,      \* [Thread -> [op, at, name, no]]
  poll,        \* None, or the names poll_instances has seen running
  tab,         \* [Tab -> name of the app it shows, or None]
  cookie,      \* ohapp_instance: set by every page
  request,     \* [Tab -> [name, port, got]] of its last request
  socket       \* [Tab -> "none", "open", or "half" when only the app has closed it]

docker == <<container, volume, port, made>>
browser == <<tab, cookie, request, socket>>
vars == <<docker, instance, thread, poll, browser>>

Idle == [op |-> "none", at |-> "none", name |-> None, no |-> 0]
NoInstance == [no |-> 0, running |-> FALSE]
Known(n) == instance[n].no # 0
Go(t, at) == thread' = [thread EXCEPT ![t].at = at]
Done(t) == thread' = [thread EXCEPT ![t] = Idle]
At(t, op, at) == thread[t].op = op /\ thread[t].at = at
FreePorts == Port \ {port[n] : n \in Name}

-----------------------------------------------------------------------------
(* Creating                                                                *)

\* The routes and powers look the name up; create wants a new one, the others an old.
Begin(t, op, n) ==
  /\ thread[t] = Idle /\ Known(n) = (op # "create")
  /\ Twice \/ op # "destroy" \/ \A u \in Thread : ~(thread[u].op = "destroy" /\ thread[u].name = n)
  /\ thread' = [thread EXCEPT ![t] = [op |-> op, at |-> "first", name |-> n, no |-> instance[n].no]]
  /\ UNCHANGED <<docker, instance, poll, browser>>

MakeVolume(t) ==
  LET n == thread[t].name
  IN  /\ At(t, "create", "first") /\ Go(t, "volume")
      /\ volume' = [volume EXCEPT ![n] = IF @ = 0 THEN made + 1 ELSE @]
      /\ UNCHANGED <<container, port, made, instance, poll, browser>>

\* "docker create" fails for a name that is taken, and the exception ends the
\* operation.
MakeContainer(t) ==
  LET n == thread[t].name
  IN  /\ At(t, "create", "volume")
      /\ IF container[n] # 0 THEN Done(t) /\ UNCHANGED docker
         ELSE /\ made < MaxMade /\ made' = made + 1 /\ container' = [container EXCEPT ![n] = made + 1]
              /\ volume' = [volume EXCEPT ![n] = IF @ = 0 THEN made + 1 ELSE @]
              /\ thread' = [thread EXCEPT ![t].at = "container", ![t].no = made + 1] /\ UNCHANGED port
      /\ UNCHANGED <<instance, poll, browser>>

\* A running container publishes its port under any free one of the host.
Runs(n) ==
  IF container[n] = 0 \/ port[n] # None THEN port' = port
  ELSE \E p \in FreePorts : port' = [port EXCEPT ![n] = p]

\* "docker start" is checked here; a container that does not start stays behind.
StartMade(t) ==
  LET n == thread[t].name
  IN  /\ At(t, "create", "container")
      /\ \/ container[n] # 0 /\ Runs(n) /\ Go(t, "started")
         \/ (Failing \/ container[n] = 0) /\ Done(t) /\ port' = port
      /\ UNCHANGED <<container, volume, made, instance, poll, browser>>

\* After _auto_setup_n8n, which waits for the app and ignores that it may be gone,
\* the instance is recorded.
Record(t) ==
  LET n == thread[t].name
  IN  /\ At(t, "create", "started") /\ Done(t)
      /\ instance' = [instance EXCEPT ![n] = [no |-> thread[t].no, running |-> TRUE]]
      /\ UNCHANGED <<docker, poll, browser>>

-----------------------------------------------------------------------------
(* Starting, stopping and destroying                                       *)

\* The command goes by the container's name and its outcome is not looked at.
Command(t) ==
  LET n == thread[t].name
  IN  /\ \/ /\ At(t, "stop", "first") /\ port' = [port EXCEPT ![n] = None]
            /\ UNCHANGED <<container, volume>> /\ Go(t, "told")
         \/ /\ At(t, "start", "first") /\ Runs(n)
            /\ UNCHANGED <<container, volume>> /\ Go(t, "told")
         \/ /\ At(t, "destroy", "first")
            /\ container' = [container EXCEPT ![n] = 0] /\ port' = [port EXCEPT ![n] = None]
            /\ UNCHANGED volume /\ Go(t, "removed")
         \/ /\ At(t, "destroy", "removed")   \* a volume in use is not removed
            /\ volume' = [volume EXCEPT ![n] = IF container[n] = 0 THEN 0 ELSE @]
            /\ UNCHANGED <<container, port>> /\ Go(t, "told")
      /\ UNCHANGED <<made, instance, poll, browser>>

\* Mutant: the record is written under its name again.
WithStatus_Written(t, n, r) == [no |-> thread[t].no, running |-> r]

\* Only the record looked up at the beginning gets the new status.
WithStatus(t, n, r) == IF instance[n].no = thread[t].no THEN [instance[n] EXCEPT !.running = r] ELSE instance[n]

\* A record that another thread has deleted is a KeyError.
Finish(t) ==
  LET n == thread[t].name
      op == thread[t].op
  IN  /\ thread[t].at = "told" /\ Done(t)
      /\ instance' =
           [instance EXCEPT ![n] = IF op = "destroy" THEN NoInstance ELSE WithStatus(t, n, op = "start")]
      /\ UNCHANGED <<docker, poll, browser>>

-----------------------------------------------------------------------------
(* Polling and restarting                                                  *)

Running == {n \in Name : port[n] # None}

PollReads == poll = None /\ poll' = Running /\ UNCHANGED <<docker, instance, thread, browser>>

PollWrites ==
  /\ poll # None /\ poll' = None
  /\ instance' = [n \in Name |-> IF Known(n) THEN [instance[n] EXCEPT !.running = (n \in poll)] ELSE NoInstance]
  /\ UNCHANGED <<docker, thread, browser>>

\* The server restarts and discovers the containers there are.
Restart ==
  /\ thread' = [t \in Thread |-> Idle] /\ poll' = None
  /\ instance' = [n \in Name |-> [no |-> container[n], running |-> (n \in Running)]]
  /\ UNCHANGED <<docker, browser>>

-----------------------------------------------------------------------------
(* The reverse proxy                                                       *)

\* get_container_url, before the request is forwarded
Look(b, n) ==
  /\ request' = [request EXCEPT ![b] =
       IF instance[n].running /\ port[n] # None THEN [name |-> n, port |-> port[n], got |-> "wait"]
       ELSE [name |-> n, port |-> None, got |-> "404"]]
  /\ UNCHANGED <<docker, instance, thread, poll, socket>>

\* A page is opened; its rooted addresses are rewritten to the app's own prefix, and
\* it sets the cookie.
Open(b, n) == request[b].got # "wait" /\ tab' = [tab EXCEPT ![b] = n] /\ cookie' = n /\ Look(b, n)

Fetch(b) == tab[b] # None /\ request[b].got # "wait" /\ Look(b, tab[b]) /\ UNCHANGED <<tab, cookie>>

\* An address the page has made itself comes without the prefix: whose it is, the
\* Referer tells, or else the cookie.
FetchRooted(b, referer) ==
  /\ tab[b] # None /\ request[b].got # "wait"
  /\ Look(b, IF referer THEN tab[b] ELSE cookie)
  /\ UNCHANGED <<tab, cookie>>

\* What listens at the port by now gets the request.
Forward(b) ==
  /\ request[b].got = "wait"
  /\ request' = [request EXCEPT ![b].got =
       IF \E n \in Running : port[n] = request[b].port
       THEN CHOOSE n \in Running : port[n] = request[b].port ELSE "502"]
  /\ UNCHANGED <<docker, instance, thread, poll, tab, cookie, socket>>

\* A WebSocket is connected to the port at once.  Its two directions are awaited
\* together: when the app has closed its side, the browser's stays open.
SocketOpens(b) ==
  /\ tab[b] # None /\ socket[b] = "none" /\ instance[tab[b]].running /\ port[tab[b]] # None
  /\ socket' = [socket EXCEPT ![b] = "open"]
  /\ UNCHANGED <<docker, instance, thread, poll, tab, cookie, request>>

AppCloses(b) ==
  /\ socket[b] = "open" /\ socket' = [socket EXCEPT ![b] = "half"]
  /\ UNCHANGED <<docker, instance, thread, poll, tab, cookie, request>>

BrowserCloses(b) ==
  /\ socket[b] # "none" /\ socket' = [socket EXCEPT ![b] = "none"]
  /\ UNCHANGED <<docker, instance, thread, poll, tab, cookie, request>>

-----------------------------------------------------------------------------
Init ==
  /\ container = [n \in Name |-> 0] /\ volume = [n \in Name |-> 0] /\ port = [n \in Name |-> None]
  /\ made = 0 /\ instance = [n \in Name |-> NoInstance] /\ thread = [t \in Thread |-> Idle]
  /\ poll = None /\ tab = [b \in Tab |-> None] /\ cookie = None
  /\ request = [b \in Tab |-> [name |-> None, port |-> None, got |-> "none"]]
  /\ socket = [b \in Tab |-> "none"]

Next ==
  \/ \E t \in Thread :
       \/ MakeVolume(t) \/ MakeContainer(t) \/ StartMade(t) \/ Record(t) \/ Command(t) \/ Finish(t)
       \/ \E n \in Name, op \in {"create", "start", "stop", "destroy"} : Begin(t, op, n)
  \/ PollReads \/ PollWrites \/ Restart
  \/ \E b \in Tab : Fetch(b) \/ Forward(b) \/ SocketOpens(b) \/ AppCloses(b) \/ BrowserCloses(b) \/ (\E n \in Name : Open(b, n)) \/ \E r \in BOOLEAN : FetchRooted(b, r)

Spec == Init /\ [][Next]_vars

-----------------------------------------------------------------------------
\* Containers and volumes are numbered within the bound, and tasks are at one of their steps.
HostedAppsTypeOK ==
  /\ container \in [Name -> 0..MaxMade] /\ volume \in [Name -> 0..MaxMade + 1]
  /\ port \in [Name -> Port \cup {None}] /\ made \in 0..MaxMade
  /\ instance \in [Name -> [no : 0..MaxMade, running : BOOLEAN]]
  /\ \A n, m \in Name : n # m /\ port[n] # None => port[n] # port[m]
  /\ tab \in [Tab -> Name \cup {None}] /\ cookie \in Name \cup {None}

\* An instance that is listed has its container and its data, unless a thread is
\* just destroying it, and as long as none is destroyed twice at a time (hosted_apps.py:144-240).
ListedHasData ==
  \A n \in Name : Known(n) =>
    \/ container[n] # 0 /\ volume[n] # 0
    \/ \E t \in Thread : thread[t].op = "destroy" /\ thread[t].name = n
=============================================================================
