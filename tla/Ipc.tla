---------------------------------- MODULE Ipc ----------------------------------
(***************************************************************************)
(* The IPC socket and the plugins that are loaded and addressed through    *)
(* it: src/ipc.c, src/plugin.c and the client in src/main.c.               *)
(*                                                                         *)
(* The compositor serves one connection after the other inside its event   *)
(* loop and blocks in read() until the client has sent its request.  The   *)
(* client reads once and goes.  Nobody ignores SIGPIPE, so that an answer  *)
(* to a client that has gone kills the compositor.                         *)
(*                                                                         *)
(* The registry keeps pointers to a dead stack frame: which entry a name   *)
(* finds is arbitrary, and looking may crash.  Only the number of entries  *)
(* is therefore kept here, and a plugin is a choice of outcomes.           *)
(***************************************************************************)
EXTENDS Integers, Sequences, SequencesExt

CONSTANTS
    Clients,        \* processes that run "buzzay plugin load" or "... msg"
    NoClient,       \* nobody
    Backlog,        \* connections that may wait: 5 in the code
    MaxPlugins,     \* bound: entries of the registry
    HangUps         \* whether clients may be killed while they wait

ASSUME IpcAssumption ==
    /\ NoClient \notin Clients
    /\ Backlog \in Nat \ {0} /\ MaxPlugins \in Nat
    /\ HangUps \in BOOLEAN

VARIABLES
    conn,       \* the connection of each client
    queue,      \* connections that wait for accept()
    server,     \* what the compositor is doing
    registry    \* plugin_array

ipcVars == <<conn, queue, server, registry>>

(* conn[c].client    "none", "silent", "sent" or "left" (its end is closed)*)
(* conn[c].request   what it has sent                                      *)
(* conn[c].answers   answers it has not read                               *)
(* conn[c].fd        the compositor's end: "none", "open" or "closed"      *)
(* server.state      "up", "down" (killed) or "stopped"                    *)
(* server.serving    the client of client_fd                               *)
(* server.step       "idle", "read", "load", "init" or "msg"               *)
(* registry.count, registry.capacity                                       *)
NoConn == [client |-> "none", request |-> "none", answers |-> 0, fd |-> "none"]
Idle == [state |-> "up", serving |-> NoClient, step |-> "idle"]
Requests == {"load", "msg", "other", "blank"}

IpcInit ==
    /\ conn = [c \in Clients |-> NoConn]
    /\ queue = << >>
    /\ server = Idle
    /\ registry = [count |-> 0, capacity |-> 0]
----------------------------------------------------------------------------
(* The client: ipc_send_msg *)

\* connect()
Connect(c) ==
    /\ server.state = "up" /\ conn[c] = NoConn /\ Len(queue) < Backlog
    /\ conn' = [conn EXCEPT ![c].client = "silent"]
    /\ queue' = Append(queue, c)
    /\ UNCHANGED <<server, registry>>

\* write() of the request
Send(c, r) ==
    /\ conn[c].client = "silent"
    /\ conn' = [conn EXCEPT ![c].client = "sent", ![c].request = r]
    /\ UNCHANGED <<queue, server, registry>>

\* A connection closed at both ends is no more.
Left(k) == IF k.fd = "closed" THEN NoConn ELSE [k EXCEPT !.client = "left"]
Closed(k) == IF k.client = "left" THEN NoConn ELSE [k EXCEPT !.fd = "closed"]

\* One read(), of one or more answers or of the end, and close()
Receive(c) ==
    /\ conn[c].client = "sent"
    /\ conn[c].answers > 0 \/ conn[c].fd = "closed"
    /\ conn' = [conn EXCEPT ![c] = Left(@)]
    /\ UNCHANGED <<queue, server, registry>>

\* The client is killed, or its request finds nobody.
HangUp(c) ==
    /\ conn[c].client \in {"silent", "sent"}
    /\ HangUps \/ server.state # "up"
    /\ conn' = [conn EXCEPT ![c] = Left(@)]
    /\ UNCHANGED <<queue, server, registry>>
----------------------------------------------------------------------------
(* The compositor *)

\* The process ends: the kernel closes all its sockets.
Ends(s) ==
    /\ conn' = [c \in Clients |->
                    IF conn[c] = NoConn THEN NoConn ELSE Closed(conn[c])]
    /\ queue' = << >>
    /\ server' = [Idle EXCEPT !.state = s]

\* An answer, to a client that has gone a SIGPIPE; then the next step
Answer(next) ==
    LET c == server.serving IN
    IF conn[c].client = "left" THEN Ends("down")
    ELSE /\ conn' = [conn EXCEPT ![c].answers = @ + 1]
         /\ server' = [server EXCEPT !.step = next]
         /\ UNCHANGED queue

\* Mutant of Finish: client_fd is only closed after an answer.
FinishLeaks ==
    /\ server' = Idle
    /\ UNCHANGED <<conn, queue>>

\* close(client_fd) and return to the event loop
Finish ==
    /\ conn' = [conn EXCEPT ![server.serving] = Closed(@)]
    /\ server' = Idle
    /\ UNCHANGED queue

\* Mutant of AnswerAndFinish: an early return without close(client_fd)
AnswerAndReturn ==
    LET c == server.serving IN
    IF conn[c].client = "left" THEN Ends("down")
    ELSE /\ conn' = [conn EXCEPT ![c].answers = @ + 1]
         /\ server' = Idle
         /\ UNCHANGED queue

\* The last answer and close(client_fd)
AnswerAndFinish ==
    LET c == server.serving IN
    IF conn[c].client = "left" THEN Ends("down")
    ELSE /\ conn' = [conn EXCEPT ![c] = Closed([@ EXCEPT !.answers = conn[c].answers + 1])]
         /\ server' = Idle
         /\ UNCHANGED queue

\* handle_ipc_connection up to read()
Accept ==
    /\ server.state = "up" /\ server.step = "idle" /\ queue # << >>
    /\ server' = [server EXCEPT !.serving = Head(queue), !.step = "read"]
    /\ conn' = [conn EXCEPT ![Head(queue)].fd = "open"]
    /\ queue' = Tail(queue)
    /\ UNCHANGED registry

\* read() returns a request, also of a client that has gone meanwhile
ReadRequest ==
    LET c == server.serving IN
    /\ server.step = "read" /\ conn[c].request \in {"load", "msg"}
    /\ server' = [server EXCEPT !.step = conn[c].request]
    /\ UNCHANGED <<conn, queue, registry>>

\* read() returns the end, or a request the compositor does not know
ReadNothing ==
    LET c == server.serving IN
    /\ server.step = "read"
    /\ \/ conn[c].request = "other"
       \/ conn[c].client = "left" /\ conn[c].request = "none"
    /\ Finish
    /\ UNCHANGED registry

\* A request of nothing but blanks has no first word, and strcmp gets a null
\* pointer.
ReadBlank ==
    /\ server.step = "read" /\ conn[server.serving].request = "blank"
    /\ Ends("down")
    /\ UNCHANGED registry

\* What init_plugin and msg_request may leave of the registry: bz_abort_plugin
\* removes the first entry that seems to have the name, as often as it is called.
Aborted(r) == {[r EXCEPT !.count = n] : n \in 0 .. r.count}

\* A look-up reads a dead stack frame for every entry.
LookUpCrashes ==
    /\ server.step \in {"load", "msg"} /\ registry.count > 0
    /\ Ends("down")
    /\ UNCHANGED registry

\* load: the path is not resolved, dlopen fails, a symbol is missing or the
\* array cannot grow.  The look-up before, handle_if_plugin_exists, may call the
\* init_plugin of any entries again and answers "no" whatever it finds.
LoadFails ==
    /\ server.step = "load"
    /\ registry' \in Aborted(registry)
    /\ AnswerAndFinish

\* load: dlopen fails and dlclose(NULL) does not survive
LoadCrashes ==
    /\ server.step = "load"
    /\ Ends("down")
    /\ UNCHANGED registry

\* load: the plugin has another API version and is loaded all the same
LoadMismatch ==
    /\ server.step = "load"
    /\ registry' \in Aborted(registry)
    /\ Answer("init")

\* The array grows by doubling.
Grown(r) ==
    IF r.count < r.capacity THEN r
    ELSE [r EXCEPT !.capacity = IF @ = 0 THEN 1 ELSE 2 * @]

\* A new entry at the end
Saved(r) == [Grown(r) EXCEPT !.count = r.count + 1]

\* load: after the look-up init_plugin is called, and the entry is saved.
LoadSucceeds ==
    /\ server.step \in {"load", "init"} /\ registry.count < MaxPlugins
    /\ \E r \in Aborted(registry) : registry' = Saved(r)
    /\ AnswerAndFinish

\* load: after a mismatch, init_plugin is missing or the array cannot grow
InitFails ==
    /\ server.step = "init"
    /\ registry' \in Aborted(registry)
    /\ AnswerAndFinish

\* msg: no entry seems to have the name, or it has no endpoint
MsgFails ==
    /\ server.step = "msg"
    /\ AnswerAndFinish
    /\ UNCHANGED registry

\* msg: the plugin's msg_request answers, and may abort the plugin
MsgAnswered ==
    /\ server.step = "msg" /\ registry.count > 0
    /\ registry' \in Aborted(registry)
    /\ AnswerAndFinish

\* msg: the plugin's msg_request answers nothing
MsgIgnored ==
    /\ server.step = "msg" /\ registry.count > 0
    /\ registry' \in Aborted(registry)
    /\ Finish

\* bz_quit, or the user, ends the event loop; the socket is closed.
Quit ==
    /\ server.state = "up" /\ server.step = "idle"
    /\ Ends("stopped")
    /\ UNCHANGED registry

ServerStep ==
    \/ Accept \/ ReadRequest \/ ReadNothing \/ ReadBlank
    \/ LoadFails \/ LoadMismatch \/ LoadSucceeds \/ InitFails
    \/ MsgFails \/ MsgAnswered \/ MsgIgnored

IpcNext ==
    \/ \E c \in Clients : Connect(c) \/ Receive(c) \/ HangUp(c)
    \/ \E c \in Clients, r \in Requests : Send(c, r)
    \/ ServerStep
    \/ LookUpCrashes \/ LoadCrashes
    \/ Quit

\* The event loop runs, and a client sends its request, reads what is there
\* and gives up when nobody is there any more.
IpcFairness ==
    /\ WF_ipcVars(ServerStep)
    /\ \A c \in Clients :
        /\ WF_ipcVars(\E r \in Requests : Send(c, r))
        /\ WF_ipcVars(Receive(c))
        /\ WF_ipcVars(server.state # "up" /\ HangUp(c))

IpcSpec == IpcInit /\ [][IpcNext]_ipcVars /\ IpcFairness
----------------------------------------------------------------------------
(* Properties *)

\* Every variable has its type.
IpcTypeOK ==
    /\ conn \in [Clients -> [client : {"none", "silent", "sent", "left"},
                             request : Requests \cup {"none"},
                             answers : 0 .. 2, fd : {"none", "open", "closed"}]]
    /\ queue \in Seq(Clients) /\ Len(queue) <= Backlog /\ IsInjective(queue)
    /\ server \in [state : {"up", "down", "stopped"}, serving : Clients \cup {NoClient},
                   step : {"idle", "read", "load", "init", "msg"}]
    /\ registry \in [count : Nat, capacity : Nat]

\* The compositor has an open end only for the connection it is serving, on
\* whichever path the last one was left (src/ipc.c:55-113): a forgotten close
\* would leave a descriptor for each request, and its client without an end.
NothingLeaks ==
    \A c \in Clients : conn[c].fd = "open" => (server.serving = c /\ server.step # "idle")

\* An entry is written inside the array, through any mix of loads, aborts and
\* failed growth (src/plugin.c:155-172, src/plugin.c:235-258).
RegistryFits == registry.count <= registry.capacity

\* All of that, in variables of their types
ServerSound == IpcTypeOK /\ NothingLeaks /\ RegistryFits

\* Every client that has sent its request gets an answer or the end of the
\* connection, as long as those before it send theirs (src/ipc.c:15-47,
\* src/ipc.c:55-113): the requests are served one after the other.
ClientsReleased == \A c \in Clients : conn[c].client = "sent" ~> conn[c].client # "sent"
=============================================================================
