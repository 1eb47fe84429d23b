----------------------------- MODULE TcpRelay -----------------------------
(***************************************************************************)
(* The TCP chat of directory 22: tcp-server.py accepts clients and passes  *)
(* every line of one on to all others; tcp-client.py sends the lines of    *)
(* its standard input and prints those of the server.                      *)
(*                                                                         *)
(* The server handles the events of one poll one after the other.  What a  *)
(* client has sent is in sock until the server's file object reads all of  *)
(* it into buf; readline returns one line of buf and reads the socket only *)
(* when buf holds no whole line.  The file objects are for reading and     *)
(* writing, and Python's write may throw away what was read ahead.  A line *)
(* is its number, Half a piece of text without a newline.  An end of a     *)
(* connection is "fin" (closed) or "rst" (reset: the client was killed or  *)
(* got data after it had closed).                                          *)
(*                                                                         *)
(* The sockets are blocking: a write of the server waits for room in those *)
(* of the client it is for, which is what inbox stands for.  What a client *)
(* is about to send counts as sent, so that its writes need no bound.      *)
(***************************************************************************)
EXTENDS Naturals, Sequences, Functions

CONSTANTS
    Clients,      \* runs of tcp-client.py
    Ends,         \* how connections may end
    MaxTexts,     \* bound of what all clients together send
    MaxHalves,    \* bound of the pieces without a newline among it
    MaxInbox      \* how many lines the sockets to each client hold

Half == 0
None == "none"
Listen == "srv_sock"

ASSUME RelayAssumption ==
    /\ None \notin Clients /\ Listen \notin Clients
    /\ Ends \subseteq {"fin", "rst"}
    /\ MaxTexts \in Nat /\ MaxHalves \in Nat /\ MaxInbox \in [Clients -> Nat \ {0}]

VARIABLES
    srv,        \* the server: "poll", "batch", "readline", "forward", ...
    batch,      \* events of the last poll that are left: <<fd, event>>
    fd,         \* the client whose event is handled
    line,       \* its line
    todo,       \* clients the line has not been sent to
    to,         \* the one of them whose turn it is
    clients,    \* the dictionary of clients, and what poll_obj watches
    backlog,    \* connections that have not been accepted
    sock,       \* what each client has sent and the server has not read
    buf,        \* what the server's file object for a client holds
    fin,        \* how a client has ended its connection: "no" or one of Ends
    inbox,      \* what was sent to a client and it has not read
    cbuf,       \* what the client's file object holds
    printed,    \* what a client has printed
    reading,    \* clients whose readline waits for the rest of a line
    wrote,      \* history: clients that have written, even if only ''
    typed,      \* how many lines a client has sent
    halves,     \* how many pieces have been sent
    relayed,    \* history: the lines that the server has read
    joined      \* history: how many of them before a client was accepted

server  == <<srv, batch, fd, line, todo, to, clients>>
history == <<relayed, joined>>
client  == <<cbuf, printed, reading, wrote, typed, halves>>
vars    == <<server, backlog, sock, buf, fin, inbox, client, history>>

Down == srv \in {"crashed", "stopped"}

Init ==
    /\ srv = "poll" /\ batch = {} /\ fd = None /\ line = Half
    /\ todo = {} /\ to = None
    /\ clients = {} /\ backlog = {}
    /\ sock = [c \in Clients |-> <<>>] /\ buf = [c \in Clients |-> <<>>]
    /\ fin = [c \in Clients |-> "no"]
    /\ inbox = [c \in Clients |-> <<>>] /\ cbuf = [c \in Clients |-> <<>>]
    /\ printed = [c \in Clients |-> <<>>]
    /\ reading = {} /\ wrote = {}
    /\ typed = [c \in Clients |-> 0] /\ halves = 0
    /\ relayed = <<>> /\ joined = [c \in Clients |-> 0]

\* What a write leaves of text that a file object has read ahead: nothing in
\* the versions of Python that reset the decoder, all of it in others.
AfterWrite(text) == {<<>>, text}

-----------------------------------------------------------------------------
(* The server.                                                             *)

\* POLLIN for data and for the end of data, more than POLLIN after a reset.
Events ==
    {<<Listen, "in">> : c \in backlog}
    \cup {<<c, "in">> : c \in {d \in clients : fin[d] # "rst" /\
                                 (sock[d] # <<>> \/ fin[d] = "fin")}}
    \cup {<<c, "hup">> : c \in {d \in clients : fin[d] = "rst"}}

Poll ==
    /\ srv = "poll"
    /\ Events # {}
    /\ batch' = Events
    /\ srv' = "batch"
    /\ UNCHANGED <<fd, line, todo, to, clients, backlog, sock, buf, fin, inbox,
                   client, history>>

Accept ==
    /\ srv = "batch"
    /\ <<Listen, "in">> \in batch
    /\ batch' = batch \ {<<Listen, "in">>}
    /\ \E c \in backlog :
         /\ backlog' = backlog \ {c}
         /\ clients' = clients \cup {c}
         /\ joined' = [joined EXCEPT ![c] = Len(relayed)]
    /\ UNCHANGED <<srv, fd, line, todo, to, sock, buf, fin, inbox, client, relayed>>

\* An event that is just POLLIN is data, or an end that readline will find;
\* every other one is a disconnection, of which shutdown makes an exception
\* that nobody catches: socket.SHUT_RDWD does not exist.
Handle ==
    /\ srv = "batch"
    /\ \E e \in batch :
         /\ e[1] # Listen
         /\ batch' = batch \ {e}
         /\ fd' = e[1]
         /\ srv' = IF e[2] = "in" THEN "readline" ELSE "crashed"
    /\ UNCHANGED <<line, todo, to, clients, backlog, sock, buf, fin, inbox, client,
                   history>>

\* Whose turn it is among some clients, which are in no order that is known.
OneOf(some) == IF some = {} THEN {None} ELSE some

Lines(text) == {i \in DOMAIN text : text[i] # Half}
First(text) == CHOOSE i \in Lines(text) : \A j \in Lines(text) : i <= j

\* Fault: the line is sent back to the client it came from, too.
ForwardToAll(n, rest) ==
    /\ srv' = "forward"
    /\ line' = n
    /\ todo' = clients /\ to' \in OneOf(todo')
    /\ buf' = [buf EXCEPT ![fd] = rest]
    /\ relayed' = Append(relayed, <<fd, n>>)

\* A line that is not empty is for all other clients.
ForwardLine(n, rest) ==
    /\ srv' = "forward"
    /\ line' = n
    /\ todo' = clients \ {fd} /\ to' \in OneOf(todo')
    /\ buf' = [buf EXCEPT ![fd] = rest]
    /\ relayed' = Append(relayed, <<fd, n>>)

\* Fault: what has been read beyond the line is dropped.
ReadlineDrops ==
    /\ srv = "readline"
    /\ IF Lines(buf[fd]) # {}
       THEN ForwardLine(buf[fd][First(buf[fd])], <<>>) /\ UNCHANGED sock
       ELSE /\ sock[fd] # <<>>
            /\ buf' = [buf EXCEPT ![fd] = @ \o sock[fd]]
            /\ sock' = [sock EXCEPT ![fd] = <<>>]
            /\ UNCHANGED <<srv, line, todo, to, relayed>>
    /\ UNCHANGED <<batch, fd, clients, backlog, fin, inbox, client, joined>>

\* readline: a whole line of buf; otherwise all that is in the socket is read,
\* also after a reset, and readline waits there for more.  At the end it returns
\* what it has; an empty line is a disconnection, and a reset an exception.
Readline ==
    /\ srv = "readline"
    /\ \/ /\ Lines(buf[fd]) # {}
          /\ LET i == First(buf[fd])
             IN  ForwardLine(buf[fd][i], SubSeq(buf[fd], i + 1, Len(buf[fd])))
          /\ UNCHANGED sock
       \/ /\ Lines(buf[fd]) = {} /\ sock[fd] # <<>>
          /\ buf' = [buf EXCEPT ![fd] = @ \o sock[fd]]
          /\ sock' = [sock EXCEPT ![fd] = <<>>]
          /\ UNCHANGED <<srv, line, todo, to, relayed>>
       \/ /\ Lines(buf[fd]) = {} /\ sock[fd] = <<>> /\ fin[fd] # "no"
          /\ \/ buf[fd] # <<>> /\ ForwardLine(Half, <<>>)
             \/ /\ buf[fd] = <<>> \/ fin[fd] = "rst"
                /\ srv' = "crashed"
                /\ UNCHANGED <<line, todo, to, buf, relayed>>
          /\ UNCHANGED sock
    /\ UNCHANGED <<batch, fd, clients, backlog, fin, inbox, client, joined>>

\* A client that has closed takes whatever is sent to it.
Room(c) == Len(inbox[c]) < MaxInbox[c] \/ fin[c] # "no"

\* write and flush for the next of the others, once there is room; a connection
\* that was reset raises an exception.
Forward ==
    /\ srv = "forward"
    /\ todo # {} /\ Room(to)
    /\ IF fin[to] = "rst"
       THEN srv' = "crashed" /\ UNCHANGED <<todo, to, inbox, buf>>
       ELSE /\ todo' = todo \ {to} /\ to' \in OneOf(todo')
            /\ inbox' = [inbox EXCEPT ![to] = Append(@, <<fd, line>>)]
            /\ \E text \in AfterWrite(buf[to]) : buf' = [buf EXCEPT ![to] = text]
            /\ UNCHANGED srv
    /\ UNCHANGED <<batch, fd, line, clients, backlog, sock, fin, client, history>>

\* Fault: the sender is disconnected after its line.
ForwardedFallsThrough ==
    /\ srv = "forward"
    /\ todo = {}
    /\ srv' = "crashed"
    /\ UNCHANGED <<batch, fd, line, todo, to, clients, backlog, sock, buf, fin,
                   inbox, client, history>>

Forwarded ==
    /\ srv = "forward"
    /\ todo = {}
    /\ srv' = "batch"
    /\ UNCHANGED <<batch, fd, line, todo, to, clients, backlog, sock, buf, fin,
                   inbox, client, history>>

BatchDone ==
    /\ srv = "batch"
    /\ batch = {}
    /\ srv' = "poll"
    /\ UNCHANGED <<batch, fd, line, todo, to, clients, backlog, sock, buf, fin,
                   inbox, client, history>>

\* KeyboardInterrupt
Stop ==
    /\ ~Down
    /\ srv' = "stopped"
    /\ UNCHANGED <<batch, fd, line, todo, to, clients, backlog, sock, buf, fin,
                   inbox, client, history>>

-----------------------------------------------------------------------------
(* The clients.                                                            *)

Connected(c) == c \in clients \cup backlog /\ fin[c] = "no" /\ ~Down

Connect(c) ==
    /\ ~Down /\ c \notin clients \cup backlog
    /\ backlog' = backlog \cup {c}
    /\ UNCHANGED <<server, sock, buf, fin, inbox, client, history>>

\* write and flush of what standard input gave.
Write(c) ==
    /\ Connected(c) /\ c \notin reading
    /\ wrote' = wrote \cup {c}
    /\ \E rest \in AfterWrite(cbuf[c]) : cbuf' = [cbuf EXCEPT ![c] = rest]

Send(c, text) ==
    /\ Write(c)
    /\ FoldFunction(+, halves, typed) < MaxTexts
    /\ sock' = [sock EXCEPT ![c] = Append(@, text)]

\* A line of standard input.
SendLine(c) ==
    /\ typed' = [typed EXCEPT ![c] = @ + 1]
    /\ Send(c, typed'[c])
    /\ UNCHANGED <<server, backlog, buf, fin, inbox, printed, reading, halves, history>>

\* Part of a line: a segment that ends within it, or a last line of the input
\* that has no newline.
SendHalf(c) ==
    /\ halves < MaxHalves
    /\ halves' = halves + 1
    /\ Send(c, Half)
    /\ UNCHANGED <<server, backlog, buf, fin, inbox, printed, reading, typed, history>>

\* At the end of standard input readline gives '', at every round, and that is
\* written.  (After the end of a terminal's input there may be lines again.)
SendNothing(c) ==
    /\ Write(c)
    /\ UNCHANGED <<server, backlog, sock, buf, fin, inbox, printed, reading, typed,
                   halves, history>>

\* The first line among what was forwarded: up to the first that is no piece.
Ending(got) == {i \in DOMAIN got : got[i][2] # Half}
LineEnd(got) == CHOOSE i \in Ending(got) : \A j \in Ending(got) : i <= j

\* Fault: what the file object still holds is lost with the next read.
PrintNewest(c) ==
    /\ Connected(c)
    /\ inbox[c] # <<>>
    /\ printed' = [printed EXCEPT ![c] = Append(@, Head(inbox[c]))]
    /\ cbuf' = [cbuf EXCEPT ![c] = Tail(inbox[c])]
    /\ inbox' = [inbox EXCEPT ![c] = <<>>]
    /\ UNCHANGED <<server, backlog, sock, buf, fin, reading, wrote, typed, halves,
                   history>>

\* When there is something in the socket, a line is printed that the file object
\* holds; if it holds none, the socket is read, and readline waits there for the
\* rest of a line that is not whole.
PrintLine(c) ==
    /\ Connected(c)
    /\ inbox[c] # <<>>
    /\ LET read == Ending(cbuf[c]) = {}
           text == IF read THEN cbuf[c] \o inbox[c] ELSE cbuf[c]
       IN  /\ inbox' = IF read THEN [inbox EXCEPT ![c] = <<>>] ELSE inbox
           /\ \/ /\ Ending(text) # {}
                 /\ printed' = [printed EXCEPT ![c] = @ \o SubSeq(text, 1, LineEnd(text))]
                 /\ cbuf' = [cbuf EXCEPT ![c] = SubSeq(text, LineEnd(text) + 1, Len(text))]
                 /\ reading' = reading \ {c}
              \/ /\ Ending(text) = {}
                 /\ cbuf' = [cbuf EXCEPT ![c] = text]
                 /\ reading' = reading \cup {c}
                 /\ UNCHANGED printed
    /\ UNCHANGED <<server, backlog, sock, buf, fin, wrote, typed, halves, history>>

\* KeyboardInterrupt and shutdown, or a kill.
Leave(c) ==
    /\ Connected(c)
    /\ \E end \in Ends : fin' = [fin EXCEPT ![c] = end]
    /\ UNCHANGED <<server, backlog, sock, buf, inbox, client, history>>

\* Data for a client that has closed is answered with a reset.
Reset(c) ==
    /\ fin[c] = "fin" /\ "rst" \in Ends /\ inbox[c] # <<>>
    /\ fin' = [fin EXCEPT ![c] = "rst"]
    /\ UNCHANGED <<server, backlog, sock, buf, inbox, client, history>>

-----------------------------------------------------------------------------

ServerStep == \/ Poll \/ Accept \/ Handle \/ Readline
              \/ Forward \/ Forwarded \/ BatchDone

Next ==
    \/ ServerStep
    \/ Stop
    \/ \E c \in Clients : \/ Connect(c) \/ SendLine(c) \/ SendHalf(c)
                          \/ SendNothing(c) \/ PrintLine(c) \/ Leave(c) \/ Reset(c)

Spec == Init /\ [][Next]_vars
FairSpec == Spec /\ WF_vars(ServerStep)

-----------------------------------------------------------------------------
(* Properties.                                                             *)

\* Every variable keeps to its values; only accepted clients have events,
\* a file object and receivers.
TypeOK ==
    /\ srv \in {"poll", "batch", "readline", "forward", "crashed", "stopped"}
    /\ batch \subseteq ({Listen} \cup clients) \X {"in", "hup"}
    /\ fd \in clients \cup {None}
    /\ srv \in {"readline", "forward"} => fd \in clients
    /\ todo \subseteq clients \ {fd} /\ to \in OneOf(todo)
    /\ clients \subseteq Clients /\ backlog \subseteq Clients \ clients
    /\ \A c \in Clients :
         /\ buf[c] # <<>> \/ inbox[c] # <<>> => c \in clients
         /\ fin[c] \in {"no"} \cup Ends
    /\ reading \subseteq Clients /\ wrote \subseteq Clients

\* What a client has been sent: printed, in its file object, on the way.
Got(c) == printed[c] \o cbuf[c] \o inbox[c]

\* The places in relayed of the lines since c was accepted, but not its own and
\* not the one that the server is just about to send it.
Due(c) == {i \in joined[c] + 1 .. Len(relayed) :
               relayed[i][1] # c /\ (c \in todo => i < Len(relayed))}

\* tcp-server.py:34-40: all clients see one conversation, in the server's order
\* and no line twice or of their own, whoever joins or leaves when: what a client
\* has got are lines due to it, at growing places.  Nothing is missing for a
\* client that has never written; one that has, even '' at the end of its input,
\* may lose lines its own file object had read ahead.
OneConversation ==
    \A c \in clients :
        \E at \in [DOMAIN Got(c) -> Due(c)] :
            /\ \A j, k \in DOMAIN at : j < k => at[j] < at[k]
            /\ \A k \in DOMAIN at : Got(c)[k] = relayed[at[k]]
            /\ c \notin wrote => Range(at) = Due(c)

\* The text of c on its way: relayed, in the file object, in the socket.
Way(c) ==
    [i \in DOMAIN relayed |-> IF relayed[i][1] = c THEN relayed[i][2] ELSE Half]
        \o buf[c] \o sock[c]

\* tcp-server.py:31: the lines of one client are read in their order and none
\* is read twice, and none is lost between the socket and the file object
\* unless the server has written another client's line to it.
ReadInOrder ==
    \A c \in clients :
        /\ \A i, j \in Lines(Way(c)) : i < j => Way(c)[i] < Way(c)[j]
        /\ (\A i \in DOMAIN relayed : relayed[i][1] = c)
               => {Way(c)[i] : i \in Lines(Way(c))} = 1 .. typed[c]

\* The server waits in readline for the rest of somebody's line.
Waiting ==
    /\ srv = "readline" /\ fin[fd] = "no"
    /\ Lines(buf[fd]) = {} /\ sock[fd] = <<>>

\* The server waits in flush for a client that does not read.
Blocked == srv = "forward" /\ todo # {} /\ ~Room(to)

\* A line that is the next in its client's socket reaches the server, unless a
\* client leaves, never sends the rest of a line that the server has begun to
\* read, or never reads what the server has for it: each of these stops the
\* server for all.  (A second line read into the file object with the first waits
\* there until more comes, because poll sees the socket only.)
NextLineRelayed ==
    \A c \in Clients : \A n \in 1..MaxTexts :
        (/\ c \in clients /\ Lines(buf[c]) = {} /\ Lines(sock[c]) # {}
         /\ sock[c][First(sock[c])] = n)
            ~> \/ \E i \in DOMAIN relayed : relayed[i] = <<c, n>>
               \/ []Waiting \/ []Blocked \/ srv = "stopped"
               \/ \E d \in Clients : fin[d] # "no"

\* What tcp-server.py:43-52 is written for: a client that disconnects is taken
\* out of the dictionary and the server goes on.
ServerSurvives == srv # "crashed"
=============================================================================
