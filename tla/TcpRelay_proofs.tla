--------------------------- MODULE TcpRelay_proofs ---------------------------
(* Proofs about TcpRelay, for any clients, any way their connections end   *)
(* and any number of lines and pieces of lines.                            *)
EXTENDS TcpRelay, TLAPS, SequenceTheorems, WellFoundedInduction

-----------------------------------------------------------------------------
(* Text: the whole lines in it and their order.                            *)

Numbers(text) == {text[i] : i \in Lines(text)}
Sorted(text)  == \A i, j \in Lines(text) : i < j => text[i] < text[j]
Before(A, B)  == \A m \in A, n \in B : m < n

LEMMA Least ==
    ASSUME NEW S, S \subseteq Nat, S # {}
    PROVE  \E i \in S : \A j \in S : i <= j
<1>1. IsWellFoundedOn(OpToRel(<, Nat), Nat)
    BY NatLessThanWellFounded
<1>2. \E i \in S : \A j \in S : ~(<<j, i>> \in OpToRel(<, Nat))
    BY <1>1, WFMin
<1>3. \A i, j \in Nat : j < i => <<j, i>> \in OpToRel(<, Nat)
    BY DEF OpToRel
<1>4. PICK i \in S : \A j \in S : ~(j < i)
    BY <1>2, <1>3
<1>5. \A j \in S : i <= j
    BY <1>4
<1> QED
    BY <1>5

\* readline finds the first whole line.
LEMMA FirstLine ==
    ASSUME NEW text \in Seq(Nat), Lines(text) # {}
    PROVE  First(text) \in Lines(text) /\ \A j \in Lines(text) : First(text) <= j
<1>1. Lines(text) \subseteq Nat
    BY DEF Lines
<1>2. \E i \in Lines(text) : \A j \in Lines(text) : i <= j
    BY <1>1, Least
<1> QED
    BY <1>2 DEF First

LEMMA NumbersType == ASSUME NEW text \in Seq(Nat) PROVE Numbers(text) \subseteq Nat \ {Half}
    BY DEF Numbers, Lines

LEMMA NoText == Numbers(<<>>) = {} /\ Sorted(<<>>)
    BY DEF Numbers, Sorted, Lines

LEMMA Joined ==
    ASSUME NEW s \in Seq(Nat), NEW t \in Seq(Nat)
    PROVE  /\ s \o t \in Seq(Nat)
           /\ Numbers(s \o t) = Numbers(s) \cup Numbers(t)
           /\ Sorted(s \o t) <=> Sorted(s) /\ Sorted(t) /\ Before(Numbers(s), Numbers(t))
<1> DEFINE u == s \o t
           l == Len(s)
<1>1. /\ u \in Seq(Nat) /\ l \in Nat /\ Len(t) \in Nat
      /\ DOMAIN s = 1 .. l /\ DOMAIN t = 1 .. Len(t) /\ DOMAIN u = 1 .. l + Len(t)
      /\ \A i \in 1 .. l : u[i] = s[i]
      /\ \A i \in 1 .. Len(t) : u[l + i] = t[i]
    BY ConcatProperties, LenProperties
<1> HIDE DEF u, l
<1>2. /\ \A i \in Lines(s) : i \in Lines(u) /\ u[i] = s[i] /\ i \in 1 .. l
      /\ \A i \in Lines(t) : l + i \in Lines(u) /\ u[l + i] = t[i] /\ i \in 1 .. Len(t)
    BY <1>1, SMTT(30) DEF Lines
<1>3. \A i \in Lines(u) : i \in Lines(s) \/ (i - l \in Lines(t) /\ i = l + (i - l))
    <2> SUFFICES ASSUME NEW i \in Lines(u), i \notin Lines(s)
                 PROVE  i - l \in Lines(t) /\ i = l + (i - l)
        OBVIOUS
    <2>1. i \in 1 .. l + Len(t) /\ u[i] # Half /\ i \notin 1 .. l
        BY <1>1 DEF Lines
    <2>2. i - l \in 1 .. Len(t) /\ i = l + (i - l)
        BY <1>1, <2>1
    <2> QED
        BY <1>1, <2>1, <2>2 DEF Lines
<1>4. Numbers(u) = Numbers(s) \cup Numbers(t)
    <2>1. \A n \in Numbers(u) : n \in Numbers(s) \cup Numbers(t)
        <3> SUFFICES ASSUME NEW i \in Lines(u) PROVE u[i] \in Numbers(s) \cup Numbers(t)
            BY DEF Numbers
        <3>1. CASE i \in Lines(s)
            BY <1>2, <3>1 DEF Numbers
        <3>2. CASE i - l \in Lines(t) /\ i = l + (i - l)
            BY <1>2, <3>2 DEF Numbers
        <3> QED
            BY <1>3, <3>1, <3>2
    <2>2. Numbers(s) \subseteq Numbers(u) /\ Numbers(t) \subseteq Numbers(u)
        BY <1>2 DEF Numbers
    <2> QED
        BY <2>1, <2>2
<1>5. ASSUME Sorted(u) PROVE Sorted(s) /\ Sorted(t) /\ Before(Numbers(s), Numbers(t))
    <2>1. Sorted(s)
        BY <1>2, <1>5 DEF Sorted
    <2>2. ASSUME NEW i \in Lines(t), NEW j \in Lines(t), i < j PROVE t[i] < t[j]
        <3>1. l + i < l + j
            BY <1>1, <1>2, <2>2
        <3> QED
            BY <1>2, <1>5, <3>1 DEF Sorted
    <2>3. ASSUME NEW i \in Lines(s), NEW j \in Lines(t) PROVE s[i] < t[j]
        <3>1. i < l + j
            BY <1>1, <1>2
        <3> QED
            BY <1>2, <1>5, <3>1 DEF Sorted
    <2> QED
        BY <2>1, <2>2, <2>3 DEF Sorted, Before, Numbers
<1>6. ASSUME Sorted(s), Sorted(t), Before(Numbers(s), Numbers(t)) PROVE Sorted(u)
    <2> SUFFICES ASSUME NEW i \in Lines(u), NEW j \in Lines(u), i < j PROVE u[i] < u[j]
        BY DEF Sorted
    <2>1. CASE i \in Lines(s) /\ j \in Lines(s)
        BY <1>2, <1>6, <2>1 DEF Sorted
    <2>2. CASE i \in Lines(s) /\ j \notin Lines(s)
        BY <1>2, <1>3, <1>6, <2>2, ZenonT(40) DEF Before, Numbers
    <2>3. CASE i \notin Lines(s) /\ j \notin Lines(s)
        <3>1. /\ i - l \in Lines(t) /\ i = l + (i - l) /\ j - l \in Lines(t) /\ j = l + (j - l)
              /\ i \in Int /\ j \in Int
            BY <1>1, <1>3, <2>3, SMTT(30) DEF Lines
        <3>2. i - l < j - l
            BY <1>1, <3>1
        <3> QED
            BY <1>2, <1>6, <3>1, <3>2 DEF Sorted
    <2>4. CASE i \notin Lines(s) /\ j \in Lines(s)
        <3>1. i - l \in 1 .. Len(t) /\ i = l + (i - l) /\ j \in 1 .. l
            BY <1>2, <1>3, <2>4
        <3> QED
            BY <1>1, <3>1
    <2> QED
        BY <2>1, <2>2, <2>3, <2>4
<1> QED
    BY <1>1, <1>4, <1>5, <1>6 DEF u

LEMMA Grown ==
    ASSUME NEW text \in Seq(Nat), NEW n \in Nat
    PROVE  /\ Append(text, n) \in Seq(Nat)
           /\ Numbers(Append(text, n)) = Numbers(text) \cup ({n} \ {Half})
           /\ Sorted(Append(text, n)) <=>
                  Sorted(text) /\ Before(Numbers(text), {n} \ {Half})
<1>1. <<n>> \in Seq(Nat) /\ Append(text, n) = text \o <<n>>
    BY AppendIsConcat
<1>2. Lines(<<n>>) = IF n = Half THEN {} ELSE {1}
    BY DEF Lines
<1>3. Numbers(<<n>>) = {n} \ {Half} /\ Sorted(<<n>>)
    BY <1>2 DEF Numbers, Sorted
<1>4. Sorted(text \o <<n>>) <=> Sorted(text) /\ Before(Numbers(text), {n} \ {Half})
    BY <1>1, <1>3, Joined
<1>5. Numbers(text \o <<n>>) = Numbers(text) \cup ({n} \ {Half})
    BY <1>1, <1>3, Joined
<1> QED
    BY <1>1, <1>4, <1>5, AppendProperties

LEMMA Rest ==
    ASSUME NEW text \in Seq(Nat), NEW i \in 1 .. Len(text)
    PROVE  LET rest == SubSeq(text, i + 1, Len(text))
           IN  /\ rest \in Seq(Nat) /\ DOMAIN rest = 1 .. Len(text) - i
               /\ \A k \in 1 .. Len(text) - i : rest[k] = text[i + k]
<1> DEFINE l == Len(text)
           rest == SubSeq(text, i + 1, l)
<1>1. l \in Nat /\ i \in Int /\ i <= l /\ \A k \in i + 1 .. l : text[k] \in Nat
    OBVIOUS
<1> HIDE DEF l
<1>2. /\ rest \in Seq(Nat)
      /\ Len(rest) = IF i + 1 <= l THEN l - (i + 1) + 1 ELSE 0
      /\ \A k \in 1 .. l - (i + 1) + 1 : rest[k] = text[(i + 1) + k - 1]
    <2>1. i + 1 \in Int /\ l \in Int
        BY <1>1
    <2> QED
        BY <1>1, <2>1, SubSeqProperties
<1> HIDE DEF rest
<1>3. l - (i + 1) + 1 = l - i /\ \A k \in 1 .. l - i : (i + 1) + k - 1 = i + k
    BY <1>1
<1>4. Len(rest) = l - i
    BY <1>1, <1>2
<1>5. DOMAIN rest = 1 .. l - i
    BY <1>2, <1>4, LenProperties
<1>6. \A k \in 1 .. l - i : rest[k] = text[i + k]
    BY <1>2, <1>3
<1> QED
    BY <1>2, <1>5, <1>6 DEF l, rest

LEMMA GrownLine ==
    ASSUME NEW text \in Seq(Nat), NEW n \in Nat \ {Half}
    PROVE  /\ Numbers(Append(text, n)) = Numbers(text) \cup {n}
           /\ Sorted(Append(text, n)) <=> Sorted(text) /\ Before(Numbers(text), {n})
<1>1. {n} \ {Half} = {n}
    OBVIOUS
<1> QED
    BY <1>1, Grown, ZenonT(40)

LEMMA GrownHalf ==
    ASSUME NEW text \in Seq(Nat)
    PROVE  /\ Numbers(Append(text, Half)) = Numbers(text)
           /\ Sorted(Append(text, Half)) <=> Sorted(text)
<1>1. {Half} \ {Half} = {} /\ Half \in Nat
    BY DEF Half
<1>2. Before(Numbers(text), {})
    BY DEF Before
<1>3. /\ Numbers(Append(text, Half)) = Numbers(text) \cup ({Half} \ {Half})
      /\ Sorted(Append(text, Half)) <=> Sorted(text) /\ Before(Numbers(text), {Half} \ {Half})
    BY <1>1, Grown, Zenon
<1> QED
    BY <1>1, <1>2, <1>3, Zenon

\* readline takes the first line out of the file object and leaves the rest.
Remainder(text) == SubSeq(text, First(text) + 1, Len(text))

LEMMA Taken ==
    ASSUME NEW text \in Seq(Nat), Lines(text) # {}
    PROVE  LET n    == text[First(text)]
               rest == Remainder(text)
           IN  /\ rest \in Seq(Nat) /\ n \in Nat \ {Half}
               /\ Numbers(text) = {n} \cup Numbers(rest)
               /\ Sorted(text) => Sorted(rest) /\ Before({n}, Numbers(rest))
<1> DEFINE l == Len(text)
           i == First(text)
           rest == Remainder(text)
<1>1. i \in Lines(text) /\ (\A j \in Lines(text) : i <= j) /\ i \in 1 .. l /\ l \in Nat
    BY FirstLine, LenProperties DEF Lines
<1>2. /\ rest \in Seq(Nat) /\ DOMAIN rest = 1 .. l - i
      /\ \A k \in 1 .. l - i : rest[k] = text[i + k]
    BY <1>1, Rest DEF Remainder
<1> HIDE DEF i, rest
<1>3. \A k \in Lines(rest) : i + k \in Lines(text) /\ rest[k] = text[i + k] /\ k \in 1 .. l - i
    <2> SUFFICES ASSUME NEW k \in Lines(rest)
                 PROVE  i + k \in Lines(text) /\ rest[k] = text[i + k] /\ k \in 1 .. l - i
        OBVIOUS
    <2>1. k \in 1 .. l - i /\ rest[k] # Half
        BY <1>2 DEF Lines
    <2>2. i + k \in 1 .. l
        BY <1>1, <2>1
    <2> QED
        BY <1>2, <2>1, <2>2, LenProperties DEF Lines
<1>4. \A j \in Lines(text) : j = i \/ (j - i \in Lines(rest) /\ rest[j - i] = text[j])
    <2> SUFFICES ASSUME NEW j \in Lines(text), j # i
                 PROVE  j - i \in Lines(rest) /\ rest[j - i] = text[j]
        OBVIOUS
    <2>1. j \in 1 .. l /\ text[j] # Half /\ i <= j
        BY <1>1 DEF Lines
    <2>2. j - i \in 1 .. l - i /\ i + (j - i) = j
        BY <1>1, <2>1
    <2> QED
        BY <1>2, <2>1, <2>2 DEF Lines
<1>5. text[i] \in Nat \ {Half}
    BY <1>1 DEF Lines
<1>6. Numbers(text) = {text[i]} \cup Numbers(rest)
    <2>1. \A j \in Lines(text) : text[j] \in {text[i]} \cup Numbers(rest)
        BY <1>4 DEF Numbers
    <2>2. \A k \in Lines(rest) : rest[k] \in Numbers(text)
        BY <1>3 DEF Numbers
    <2>3. text[i] \in Numbers(text)
        BY <1>1 DEF Numbers
    <2>4. Numbers(text) \subseteq {text[i]} \cup Numbers(rest)
        BY <2>1 DEF Numbers
    <2>5. Numbers(rest) \subseteq Numbers(text)
        BY <2>2 DEF Numbers
    <2> QED
        BY <2>3, <2>4, <2>5
<1>7. ASSUME Sorted(text) PROVE Sorted(rest) /\ Before({text[i]}, Numbers(rest))
    <2>1. ASSUME NEW j \in Lines(rest), NEW k \in Lines(rest), j < k PROVE rest[j] < rest[k]
        <3>1. i + j < i + k
            BY <1>1, <1>3, <2>1
        <3> QED
            BY <1>3, <1>7, <3>1 DEF Sorted
    <2>2. ASSUME NEW j \in Lines(rest) PROVE text[i] < rest[j]
        <3>1. i < i + j
            BY <1>1, <1>3
        <3> QED
            BY <1>1, <1>3, <1>7, <3>1 DEF Sorted
    <2> QED
        BY <2>1, <2>2 DEF Sorted, Before, Numbers
<1> QED
    BY <1>2, <1>5, <1>6, <1>7 DEF i, rest

-----------------------------------------------------------------------------
(* The inductive invariant.                                                *)

Said == Clients \X Nat

\* The server's own variables, and when there is a line to send.
Server ==
    /\ srv \in {"poll", "batch", "readline", "forward", "crashed", "stopped"}
    /\ batch \subseteq ({Listen} \cup clients) \X {"in", "hup"}
    /\ fd \in clients \cup {None}
    /\ srv \in {"readline", "forward"} => fd \in clients
    /\ line \in Nat
    /\ todo \subseteq clients \ {fd} /\ to \in OneOf(todo)
    /\ srv \in {"poll", "batch", "readline"} => todo = {}
    /\ clients \subseteq Clients /\ backlog \subseteq Clients \ clients
    /\ fin \in [Clients -> {"no"} \cup Ends]
    /\ reading \subseteq Clients /\ wrote \subseteq Clients

\* Text on its way, and what the line to send is.
Texts ==
    /\ sock \in [Clients -> Seq(Nat)] /\ buf \in [Clients -> Seq(Nat)]
    /\ inbox \in [Clients -> Seq(Said)] /\ cbuf \in [Clients -> Seq(Said)]
    /\ printed \in [Clients -> Seq(Said)]
    /\ typed \in [Clients -> Nat] /\ halves \in Nat
    /\ relayed \in Seq(Said)
    /\ joined \in [Clients -> Nat]
    /\ \A c \in clients : joined[c] <= Len(relayed)
    /\ \A c \in todo : joined[c] < Len(relayed) /\ relayed[Len(relayed)] = <<fd, line>>
    /\ \A c \in Clients \ clients :
          /\ buf[c] = <<>> /\ inbox[c] = <<>> /\ cbuf[c] = <<>> /\ printed[c] = <<>>
          /\ \A i \in DOMAIN relayed : relayed[i][1] # c

\* Of count lines, those in mine come before those in text and those in more,
\* and none is missing if only is true.
InOrder(mine, text, more, count, only) ==
    /\ Sorted(mine) /\ Sorted(text) /\ Sorted(more)
    /\ Before(Numbers(mine), Numbers(text)) /\ Before(Numbers(text), Numbers(more))
    /\ Before(Numbers(mine), Numbers(more))
    /\ Numbers(mine) \cup Numbers(text) \cup Numbers(more) \subseteq 1 .. count
    /\ only => 1 .. count \subseteq Numbers(mine) \cup Numbers(text) \cup Numbers(more)

Mine(c) == [i \in DOMAIN relayed |-> IF relayed[i][1] = c THEN relayed[i][2] ELSE Half]
Only(c) == \A i \in DOMAIN relayed : relayed[i][1] = c
Order   == \A c \in Clients : InOrder(Mine(c), buf[c], sock[c], typed[c], Only(c))

\* The ways of readline: a whole line, more text, the rest of a closed
\* connection, or an exception.
ReadWhole ==
    /\ Lines(buf[fd]) # {}
    /\ ForwardLine(buf[fd][First(buf[fd])], Remainder(buf[fd]))
    /\ UNCHANGED sock

ReadMore ==
    /\ Lines(buf[fd]) = {}
    /\ buf' = [buf EXCEPT ![fd] = @ \o sock[fd]]
    /\ sock' = [sock EXCEPT ![fd] = <<>>]
    /\ UNCHANGED <<srv, line, todo, to, relayed>>

ReadRest ==
    /\ Lines(buf[fd]) = {} /\ sock[fd] = <<>>
    /\ ForwardLine(Half, <<>>)
    /\ UNCHANGED sock

ReadFails == srv' = "crashed" /\ UNCHANGED <<line, todo, to, buf, relayed, sock>>

LEMMA ReadlineWays ==
    Readline => /\ srv = "readline"
                /\ ReadWhole \/ ReadMore \/ ReadRest \/ ReadFails
                /\ UNCHANGED <<batch, fd, clients, backlog, fin, inbox, client, joined>>
    BY DEF Readline, ReadWhole, ReadMore, ReadRest, ReadFails, Remainder

\* What a client sends is the next line, a piece or nothing.
Sends(c) == SendLine(c) \/ SendHalf(c) \/ SendNothing(c)

LEMMA Sending ==
    ASSUME NEW c \in Clients, Sends(c)
    PROVE  /\ Write(c)
           /\ UNCHANGED <<server, backlog, buf, fin, inbox, printed, reading, history>>
           /\ \/ Send(c, typed'[c]) /\ typed' = [typed EXCEPT ![c] = @ + 1] /\ UNCHANGED halves
              \/ Send(c, Half) /\ halves' = halves + 1 /\ UNCHANGED typed
              \/ UNCHANGED <<sock, typed, halves>>
    BY DEF Sends, SendLine, SendHalf, SendNothing, Send

LEMMA Writing ==
    ASSUME NEW c \in Clients, Write(c)
    PROVE  /\ wrote' = wrote \cup {c}
           /\ \E rest \in {<<>>, cbuf[c]} : cbuf' = [cbuf EXCEPT ![c] = rest]
    BY DEF Write, AfterWrite

LEMMA NextServer == ASSUME Server, [Next]_vars, buf \in [Clients -> Seq(Nat)]
                    PROVE  Server'
<1> USE RelayAssumption DEF Server, server, client, history, OneOf
<1>1. ASSUME Poll PROVE Server'
    BY <1>1 DEF Poll, Events
<1>2. ASSUME Accept PROVE Server'
    BY <1>2 DEF Accept
<1>3. ASSUME Handle PROVE Server'
    BY <1>3 DEF Handle
<1>4. ASSUME Readline PROVE Server'
    <2>1. /\ fd \in clients /\ todo = {}
          /\ UNCHANGED <<batch, fd, clients, backlog, fin, reading, wrote>>
        BY <1>4, ReadlineWays
    <2>2. CASE ReadWhole
        <3>1. buf[fd] \in Seq(Nat) /\ Lines(buf[fd]) # {}
            BY <2>1, <2>2 DEF ReadWhole
        <3>2. buf[fd][First(buf[fd])] \in Nat
            BY <3>1, FirstLine, LenProperties DEF Lines
        <3> QED
            BY <2>1, <2>2, <3>2 DEF ReadWhole, ForwardLine
    <2>3. CASE ReadMore \/ ReadFails
        BY <2>1, <2>3 DEF ReadMore, ReadFails
    <2>4. CASE ReadRest
        BY <2>1, <2>4 DEF ReadRest, ForwardLine, Half
    <2> QED
        BY <1>4, <2>2, <2>3, <2>4, ReadlineWays
<1>5. ASSUME Forward PROVE Server'
    BY <1>5 DEF Forward
<1>6. ASSUME Forwarded \/ BatchDone \/ Stop PROVE Server'
    BY <1>6 DEF Forwarded, BatchDone, Stop
<1>7. ASSUME NEW c \in Clients, Connect(c) PROVE Server'
    BY <1>7 DEF Connect
<1>8. ASSUME NEW c \in Clients, Sends(c) PROVE Server'
    <2>1. wrote' = wrote \cup {c} /\ UNCHANGED <<server, backlog, fin, reading>>
        BY <1>8, Sending, Writing
    <2> QED
        BY <2>1
<1>9. ASSUME NEW c \in Clients, PrintLine(c) PROVE Server'
    BY <1>9 DEF PrintLine
<1>10. ASSUME NEW c \in Clients, Leave(c) \/ Reset(c) PROVE Server'
    <2>1. \E end \in Ends : fin' = [fin EXCEPT ![c] = end]
        BY <1>10 DEF Leave, Reset
    <2>2. fin' \in [Clients -> {"no"} \cup Ends]
        BY <2>1
    <2> QED
        BY <1>10, <2>2 DEF Leave, Reset
<1>11. CASE UNCHANGED vars
    BY <1>11 DEF vars
<1> HIDE DEF Server
<1> QED
    BY <1>1, <1>2, <1>3, <1>4, <1>5, <1>6, <1>7, <1>8, <1>9, <1>10, <1>11
       DEF Next, ServerStep, Sends

\* The ways of a write to the next client: an exception or a line sent.
LEMMA ForwardWays ==
    ASSUME Server, Forward
    PROVE  /\ srv = "forward"
           /\ UNCHANGED <<batch, fd, line, clients, backlog, sock, fin, client, history>>
           /\ \/ srv' = "crashed" /\ UNCHANGED <<todo, inbox, buf>>
              \/ \E c \in todo : \E rest \in AfterWrite(buf[c]) :
                    /\ todo' = todo \ {c}
                    /\ inbox' = [inbox EXCEPT ![c] = Append(@, <<fd, line>>)]
                    /\ buf' = [buf EXCEPT ![c] = rest]
<1>1. to \in todo
    BY DEF Server, Forward, OneOf
<1> QED
    BY <1>1, SMTT(30) DEF Forward

\* What the server relays is said by a client that it has accepted.
LEMMA Relaying ==
    ASSUME Server, Texts, fd \in clients, todo = {}, NEW n \in Nat,
           NEW rest \in Seq(Nat), ForwardLine(n, rest),
           UNCHANGED <<batch, fd, clients, backlog, fin, inbox, client, joined, sock>>
    PROVE  Texts'
<1> USE DEF client
<1>1. <<fd, n>> \in Said /\ fd \in Clients
    BY DEF Server, Said
<1>2. /\ relayed' \in Seq(Said) /\ Len(relayed') = Len(relayed) + 1 /\ Len(relayed) \in Nat
      /\ relayed'[Len(relayed')] = <<fd', line'>>
      /\ DOMAIN relayed' = 1 .. Len(relayed) + 1
      /\ \A i \in 1 .. Len(relayed) : relayed'[i] = relayed[i]
    BY <1>1, AppendProperties DEF ForwardLine, Texts
<1>3. buf' \in [Clients -> Seq(Nat)] /\ \A c \in Clients \ {fd} : buf'[c] = buf[c]
    BY <1>1 DEF ForwardLine, Texts
<1>4. \A c \in clients : joined[c] < Len(relayed')
    BY <1>2 DEF Texts, Server
<1>5. todo' \subseteq clients
    BY DEF ForwardLine
<1>6. ASSUME NEW c \in Clients \ clients, NEW i \in DOMAIN relayed' PROVE relayed'[i][1] # c
    <2>1. CASE i \in 1 .. Len(relayed)
        BY <1>2, <1>6, <2>1, LenProperties DEF Texts
    <2>2. CASE i = Len(relayed')
        BY <1>2, <1>6, <2>2
    <2> QED
        BY <1>2, <2>1, <2>2
<1>7. \A c \in clients : joined[c] <= Len(relayed')
    BY <1>2, <1>4 DEF Texts, Server
<1> QED
    BY <1>2, <1>3, <1>4, <1>5, <1>6, <1>7 DEF Texts

\* readline takes the beginning of what the file object and the socket hold.
LEMMA Split ==
    ASSUME NEW text \in Seq(Said), NEW i \in 1 .. Len(text)
    PROVE  /\ SubSeq(text, 1, i) \in Seq(Said) /\ SubSeq(text, i + 1, Len(text)) \in Seq(Said)
           /\ SubSeq(text, 1, i) \o SubSeq(text, i + 1, Len(text)) = text
    BY SMTT(30)

LEMMA Associative ==
    \A s, t, u \in Seq(Said) : s \o t \o u = s \o (t \o u)
    BY ConcatAssociative

LEMMA LineTaken ==
    ASSUME NEW text \in Seq(Said), NEW i \in 1 .. Len(text), NEW p \in Seq(Said)
    PROVE  /\ p \o SubSeq(text, 1, i) \in Seq(Said)
           /\ SubSeq(text, i + 1, Len(text)) \in Seq(Said)
           /\ p \o SubSeq(text, 1, i) \o SubSeq(text, i + 1, Len(text)) = p \o text
<1>1. PICK s \in Seq(Said), t \in Seq(Said) :
         s = SubSeq(text, 1, i) /\ t = SubSeq(text, i + 1, Len(text)) /\ s \o t = text
    BY Split
<1>2. p \o s \o t = p \o (s \o t)
    BY <1>1, Associative, Zenon
<1>3. p \o s \in Seq(Said)
    BY <1>1, ConcatProperties
<1>4. s = SubSeq(text, 1, i) /\ t = SubSeq(text, i + 1, Len(text)) /\ t \in Seq(Said)
    BY <1>1
<1>5. s \o t = text
    BY <1>1
<1> QED
    BY <1>2, <1>3, <1>4, <1>5, Zenon

LEMMA FirstEnd ==
    ASSUME NEW got \in Seq(Said), Ending(got) # {} PROVE LineEnd(got) \in 1 .. Len(got)
<1>1. Ending(got) \subseteq 1 .. Len(got) /\ Ending(got) \subseteq Nat
    BY LenProperties DEF Ending
<1>2. \E i \in Ending(got) : \A j \in Ending(got) : i <= j
    BY <1>1, Least
<1>3. LineEnd(got) \in Ending(got)
    BY <1>2 DEF LineEnd
<1> QED
    BY <1>1, <1>3

\* What is printed, held and on its way is the same as before, split elsewhere.
LEMMA PrintWays ==
    ASSUME NEW c \in Clients
    PROVE  /\ PrintLine(c)
           /\ printed[c] \in Seq(Said) /\ cbuf[c] \in Seq(Said) /\ inbox[c] \in Seq(Said)
           /\ printed \in [Clients -> Seq(Said)] /\ cbuf \in [Clients -> Seq(Said)]
           /\ inbox \in [Clients -> Seq(Said)]
           => \E p, q, r \in Seq(Said) :
              /\ printed' = [printed EXCEPT ![c] = p] /\ cbuf' = [cbuf EXCEPT ![c] = q]
              /\ inbox' = [inbox EXCEPT ![c] = r]
              /\ p \o q \o r = printed[c] \o cbuf[c] \o inbox[c]
<1>1. SUFFICES ASSUME PrintLine(c),
                      printed[c] \in Seq(Said), cbuf[c] \in Seq(Said), inbox[c] \in Seq(Said),
                      printed \in [Clients -> Seq(Said)], cbuf \in [Clients -> Seq(Said)],
                      inbox \in [Clients -> Seq(Said)]
               PROVE  \E p, q, r \in Seq(Said) :
                          /\ printed' = [printed EXCEPT ![c] = p]
                          /\ cbuf' = [cbuf EXCEPT ![c] = q]
                          /\ inbox' = [inbox EXCEPT ![c] = r]
                          /\ p \o q \o r = printed[c] \o cbuf[c] \o inbox[c]
    OBVIOUS
<1>2. PICK p0 \in Seq(Said), q0 \in Seq(Said), r0 \in Seq(Said) :
        p0 = printed[c] /\ q0 = cbuf[c] /\ r0 = inbox[c]
    BY <1>1
<1> DEFINE read == Ending(q0) = {}
<1>3. PICK text, r \in Seq(Said) :
        /\ text = IF read THEN q0 \o r0 ELSE q0
        /\ inbox' = [inbox EXCEPT ![c] = r]
        /\ text \o r = q0 \o r0
    <2>1. q0 \o r0 \in Seq(Said) /\ q0 \o r0 \o <<>> = q0 \o r0 /\ <<>> \in Seq(Said)
        BY ConcatProperties, ConcatEmptySeq, EmptySeq
    <2>2. inbox' = [inbox EXCEPT ![c] = IF read THEN <<>> ELSE r0]
        BY <1>1, <1>2 DEF PrintLine
    <2>3. CASE read
        BY <1>2, <2>1, <2>2, <2>3
    <2>4. CASE ~read
        BY <1>2, <2>2, <2>4
    <2> QED
        BY <2>3, <2>4
<1>4. \/ /\ Ending(text) # {}
         /\ printed' = [printed EXCEPT ![c] = p0 \o SubSeq(text, 1, LineEnd(text))]
         /\ cbuf' = [cbuf EXCEPT ![c] = SubSeq(text, LineEnd(text) + 1, Len(text))]
      \/ cbuf' = [cbuf EXCEPT ![c] = text] /\ printed' = [printed EXCEPT ![c] = p0]
    <2>1. text = IF Ending(cbuf[c]) = {} THEN cbuf[c] \o inbox[c] ELSE cbuf[c]
        BY <1>2, <1>3
    <2>2. \/ /\ Ending(text) # {}
             /\ printed' = [printed EXCEPT ![c] = printed[c] \o SubSeq(text, 1, LineEnd(text))]
             /\ cbuf' = [cbuf EXCEPT ![c] = SubSeq(text, LineEnd(text) + 1, Len(text))]
          \/ cbuf' = [cbuf EXCEPT ![c] = text] /\ printed' = printed
        BY <1>1, <2>1, Zenon DEF PrintLine
    <2>3. printed = [printed EXCEPT ![c] = p0]
        BY <1>1, <1>2
    <2> QED
        BY <1>2, <2>2, <2>3
<1>5. /\ p0 \in Seq(Said) /\ q0 \in Seq(Said) /\ r0 \in Seq(Said)
      /\ text \in Seq(Said) /\ r \in Seq(Said)
    BY <1>2, <1>3
<1>6. p0 \o q0 \o r0 = p0 \o text \o r
    <2>1. p0 \o text \o r = p0 \o (text \o r)
        <3>1. p0 \in Seq(Said) /\ text \in Seq(Said) /\ r \in Seq(Said)
            BY <1>2, <1>3
        <3> QED
            BY <3>1, Associative, Zenon
    <2>2. p0 \o q0 \o r0 = p0 \o (q0 \o r0)
        <3>1. p0 \in Seq(Said) /\ q0 \in Seq(Said) /\ r0 \in Seq(Said)
            BY <1>2
        <3> QED
            BY <3>1, Associative, Zenon
    <2>3. text \o r = q0 \o r0
        BY <1>3
    <2> QED
        BY <2>1, <2>2, <2>3, Zenon
<1>7. p0 \o q0 \o r0 = printed[c] \o cbuf[c] \o inbox[c]
    BY <1>2, Zenon
<1>8. CASE /\ Ending(text) # {}
           /\ printed' = [printed EXCEPT ![c] = p0 \o SubSeq(text, 1, LineEnd(text))]
           /\ cbuf' = [cbuf EXCEPT ![c] = SubSeq(text, LineEnd(text) + 1, Len(text))]
    <2>1. PICK i \in 1 .. Len(text) : i = LineEnd(text)
        BY <1>8, FirstEnd
    <2>2. PICK p \in Seq(Said), t \in Seq(Said) :
             /\ p = p0 \o SubSeq(text, 1, i) /\ t = SubSeq(text, i + 1, Len(text))
             /\ p \o t = p0 \o text
        <3>1. text \in Seq(Said) /\ i \in 1 .. Len(text) /\ p0 \in Seq(Said)
            BY <1>5, <2>1
        <3>2. /\ p0 \o SubSeq(text, 1, i) \in Seq(Said)
              /\ SubSeq(text, i + 1, Len(text)) \in Seq(Said)
              /\ p0 \o SubSeq(text, 1, i) \o SubSeq(text, i + 1, Len(text)) = p0 \o text
            BY <3>1, LineTaken, Zenon
        <3> QED
            BY <3>2, Zenon
    <2>3. /\ printed' = [printed EXCEPT ![c] = p] /\ cbuf' = [cbuf EXCEPT ![c] = t]
          /\ p \o t \o r = printed[c] \o cbuf[c] \o inbox[c]
        BY <1>6, <1>7, <1>8, <2>1, <2>2
    <2> QED
        <3>1. p \in Seq(Said) /\ t \in Seq(Said)
            BY <2>2
        <3>2. inbox' = [inbox EXCEPT ![c] = r]
            BY <1>3
        <3> QED
            BY <1>3, <2>3, <3>1, <3>2
<1>9. CASE cbuf' = [cbuf EXCEPT ![c] = text] /\ printed' = [printed EXCEPT ![c] = p0]
    BY <1>2, <1>3, <1>6, <1>9, Zenon
<1> QED
    BY <1>4, <1>7, <1>8, <1>9, Zenon

LEMMA NextTexts == ASSUME Server, Texts, [Next]_vars PROVE Texts'
<1> USE RelayAssumption DEF Texts, server, client, history
<1>1. ASSUME Poll \/ Handle \/ Forwarded \/ BatchDone \/ Stop PROVE Texts'
    BY <1>1 DEF Poll, Handle, Forwarded, BatchDone, Stop, Server
<1>2. ASSUME Accept PROVE Texts'
    <2>1. PICK c \in backlog : clients' = clients \cup {c}
                            /\ joined' = [joined EXCEPT ![c] = Len(relayed)]
        BY <1>2 DEF Accept
    <2>2. c \in Clients /\ Len(relayed) \in Nat
        BY <2>1 DEF Server
    <2>3. todo = {} /\ UNCHANGED <<todo, fd, line, sock, buf, inbox, client, relayed>>
        BY <1>2 DEF Accept, Server
    <2>4. /\ joined' \in [Clients -> Nat] /\ joined'[c] = Len(relayed)
          /\ \A d \in Clients \ {c} : joined'[d] = joined[d]
        BY <2>1, <2>2
    <2>5. \A d \in clients' : joined'[d] <= Len(relayed)
        BY <2>1, <2>2, <2>4 DEF Server
    <2> QED
        BY <2>1, <2>3, <2>4, <2>5
<1>3. ASSUME Readline PROVE Texts'
    <2>1. /\ fd \in clients /\ fd \in Clients /\ todo = {}
          /\ UNCHANGED <<batch, fd, clients, backlog, fin, inbox, client, joined>>
        BY <1>3, ReadlineWays DEF Server
    <2>2. CASE ReadWhole
        <3>1. buf[fd][First(buf[fd])] \in Nat /\ Remainder(buf[fd]) \in Seq(Nat)
            BY <2>1, <2>2, Taken DEF ReadWhole
        <3> QED
            BY <2>1, <2>2, <3>1, Relaying DEF ReadWhole
    <2>3. CASE ReadMore
        <3>1. buf[fd] \o sock[fd] \in Seq(Nat)
            BY <2>1, ConcatProperties
        <3>2. buf' \in [Clients -> Seq(Nat)] /\ \A c \in Clients \ {fd} : buf'[c] = buf[c]
            BY <2>1, <2>3, <3>1 DEF ReadMore
        <3>3. sock' \in [Clients -> Seq(Nat)]
            BY <2>1, <2>3 DEF ReadMore
        <3> QED
            BY <2>1, <2>3, <3>2, <3>3 DEF ReadMore
    <2>4. CASE ReadRest
        BY <2>1, <2>4, Relaying, SMTT(30) DEF ReadRest, Half
    <2>5. CASE ReadFails
        BY <2>1, <2>5 DEF ReadFails
    <2> QED
        BY <1>3, <2>2, <2>3, <2>4, <2>5, ReadlineWays
<1>4. ASSUME Forward PROVE Texts'
    <2>1. UNCHANGED <<fd, line, clients, sock, client, relayed, joined>>
        BY <1>4 DEF Forward
    <2>2. CASE UNCHANGED <<todo, inbox, buf>>
        BY <2>1, <2>2
    <2>3. ASSUME NEW c \in todo, todo' = todo \ {c},
                 inbox' = [inbox EXCEPT ![c] = Append(@, <<fd, line>>)],
                 NEW rest \in AfterWrite(buf[c]), buf' = [buf EXCEPT ![c] = rest]
          PROVE  Texts'
        <3>1. c \in clients /\ c \in Clients /\ <<fd, line>> \in Said
            BY <1>4, <2>3 DEF Server, Forward, Said
        <3>2. rest \in Seq(Nat) /\ Append(inbox[c], <<fd, line>>) \in Seq(Said)
            <4>1. inbox[c] \in Seq(Said) /\ buf[c] \in Seq(Nat)
                BY <3>1
            <4> HIDE DEF Texts
            <4>2. Append(inbox[c], <<fd, line>>) \in Seq(Said)
                BY <3>1, <4>1, AppendProperties
            <4>3. rest \in {<<>>, buf[c]} /\ <<>> \in Seq(Nat)
                BY <2>3, EmptySeq DEF AfterWrite
            <4> QED
                BY <4>1, <4>2, <4>3, Zenon
        <3>3. /\ inbox' \in [Clients -> Seq(Said)] /\ buf' \in [Clients -> Seq(Nat)]
              /\ \A d \in Clients \ {c} : inbox'[d] = inbox[d] /\ buf'[d] = buf[d]
            BY <2>3, <3>1, <3>2
        <3> QED
            BY <2>1, <2>3, <3>1, <3>3
    <2> QED
        BY <1>4, <2>2, <2>3, ForwardWays, ZenonT(40)
<1>5. ASSUME NEW c \in Clients, Connect(c) \/ Leave(c) \/ Reset(c) PROVE Texts'
    <2>1. UNCHANGED <<fd, line, todo, clients, sock, buf, inbox, client, relayed, joined>>
        BY <1>5 DEF Connect, Leave, Reset
    <2> QED
        BY <2>1
<1>6. ASSUME NEW c \in Clients, Sends(c) PROVE Texts'
    <2>1. UNCHANGED <<fd, line, todo, clients, buf, inbox, printed, relayed, joined>>
        BY <1>6, Sending
    <2>2. typed' \in [Clients -> Nat] /\ halves' \in Nat
        <3>1. \/ typed' = [typed EXCEPT ![c] = @ + 1] /\ halves' = halves
              \/ typed' = typed /\ halves' = halves + 1
              \/ typed' = typed /\ halves' = halves
            BY <1>6, Sending
        <3>2. typed \in [Clients -> Nat] /\ halves \in Nat
            OBVIOUS
        <3> HIDE DEF Texts
        <3> QED
            BY <3>1, <3>2
    <2>4. sock' \in [Clients -> Seq(Nat)]
        <3>1. sock \in [Clients -> Seq(Nat)]
            OBVIOUS
        <3> HIDE DEF Texts
        <3>2. ASSUME NEW text \in Nat PROVE Append(sock[c], text) \in Seq(Nat)
            BY <3>1, AppendProperties
        <3>3. \/ \E text \in Nat : sock' = [sock EXCEPT ![c] = Append(@, text)]
              \/ sock' = sock
            BY <1>6, <2>2, Sending DEF Send, Half
        <3> QED
            BY <3>1, <3>2, <3>3
    <2>5. /\ cbuf' \in [Clients -> Seq(Said)]
          /\ \A d \in Clients : cbuf[d] = <<>> => cbuf'[d] = <<>>
        <3>1. cbuf \in [Clients -> Seq(Said)]
            OBVIOUS
        <3> HIDE DEF Texts
        <3>2. PICK rest \in {<<>>, cbuf[c]} : cbuf' = [cbuf EXCEPT ![c] = rest]
            BY <1>6, Sending, Writing
        <3>3. rest \in Seq(Said) /\ (cbuf[c] = <<>> => rest = <<>>)
            <4>1. <<>> \in Seq(Said) /\ cbuf[c] \in Seq(Said)
                BY <3>1, EmptySeq
            <4> QED
                BY <3>2, <4>1, Zenon
        <3> QED
            BY <3>1, <3>2, <3>3
    <2> QED
        BY <2>1, <2>2, <2>4, <2>5
<1>7. ASSUME NEW c \in Clients, PrintLine(c) PROVE Texts'
    <2>1. /\ c \in clients
          /\ UNCHANGED <<fd, line, todo, clients, buf, sock, relayed, joined, typed, halves>>
        BY <1>7 DEF PrintLine, Server
    <2>2. /\ printed[c] \in Seq(Said) /\ cbuf[c] \in Seq(Said) /\ inbox[c] \in Seq(Said)
          /\ inbox \in [Clients -> Seq(Said)] /\ cbuf \in [Clients -> Seq(Said)]
          /\ printed \in [Clients -> Seq(Said)]
        OBVIOUS
    <2> HIDE DEF Texts
    <2>3. PICK p, q, r \in Seq(Said) :
             /\ printed' = [printed EXCEPT ![c] = p] /\ cbuf' = [cbuf EXCEPT ![c] = q]
             /\ inbox' = [inbox EXCEPT ![c] = r]
             /\ p \o q \o r = printed[c] \o cbuf[c] \o inbox[c]
        BY <1>7, <2>2, PrintWays
    <2>4. /\ inbox' \in [Clients -> Seq(Said)] /\ cbuf' \in [Clients -> Seq(Said)]
          /\ printed' \in [Clients -> Seq(Said)]
          /\ \A d \in Clients \ {c} :
                inbox'[d] = inbox[d] /\ cbuf'[d] = cbuf[d] /\ printed'[d] = printed[d]
        BY <2>2, <2>3
    <2> QED
        BY <2>1, <2>4 DEF Texts
<1>8. CASE UNCHANGED vars
    BY <1>8 DEF vars
<1> HIDE DEF Texts
<1> QED
    BY <1>1, <1>2, <1>3, <1>4, <1>5, <1>6, <1>7, <1>8 DEF Next, ServerStep, Sends
-----------------------------------------------------------------------------
(* Lines stay in their order on the way to the server.                     *)

\* The first line of the file object is relayed.
LEMMA TakeIn ==
    ASSUME NEW mine \in Seq(Nat), NEW text \in Seq(Nat), NEW more \in Seq(Nat),
           NEW count \in Nat, NEW only, InOrder(mine, text, more, count, only),
           Lines(text) # {}
    PROVE  InOrder(Append(mine, text[First(text)]), Remainder(text), more, count, only)
<1> DEFINE i == First(text)
           rest == Remainder(text)
<1>1. /\ rest \in Seq(Nat) /\ text[i] \in Nat \ {Half}
      /\ Numbers(text) = {text[i]} \cup Numbers(rest)
      /\ Sorted(text) => Sorted(rest) /\ Before({text[i]}, Numbers(rest))
    BY Taken
<1>2. /\ Numbers(Append(mine, text[i])) = Numbers(mine) \cup {text[i]}
      /\ Sorted(Append(mine, text[i])) <=> Sorted(mine) /\ Before(Numbers(mine), {text[i]})
    BY <1>1, GrownLine, Zenon
<1> HIDE DEF i, rest
<1>3. InOrder(Append(mine, text[i]), rest, more, count, only)
    BY <1>1, <1>2 DEF InOrder, Before
<1> QED
    BY <1>3 DEF i, rest

\* What is in the socket goes to a file object without a whole line.
LEMMA ReadIn ==
    ASSUME NEW mine \in Seq(Nat), NEW text \in Seq(Nat), NEW more \in Seq(Nat),
           NEW count \in Nat, NEW only, InOrder(mine, text, more, count, only)
    PROVE  InOrder(mine, text \o more, <<>>, count, only)
<1>1. /\ Numbers(text \o more) = Numbers(text) \cup Numbers(more)
      /\ Sorted(text \o more) <=> Sorted(text) /\ Sorted(more)
                                     /\ Before(Numbers(text), Numbers(more))
    BY Joined
<1> QED
    BY <1>1, NoText DEF InOrder, Before

\* A piece is relayed, or a line of another client.
LEMMA HalfIn ==
    ASSUME NEW mine \in Seq(Nat), NEW text, NEW more, NEW count, NEW only,
           InOrder(mine, text, more, count, only), NEW then, then => only
    PROVE  InOrder(Append(mine, Half), text, more, count, then)
<1>1. Numbers(Append(mine, Half)) = Numbers(mine)
    BY GrownHalf
<1>2. Sorted(Append(mine, Half))
    BY GrownHalf DEF InOrder
<1> QED
    BY <1>1, <1>2 DEF InOrder

\* The file object loses what it holds.
LEMMA DropIn ==
    ASSUME NEW mine, NEW text, NEW more, NEW count, NEW only,
           InOrder(mine, text, more, count, only), NEW then, then => only,
           Numbers(text) = {} \/ ~then
    PROVE  InOrder(mine, <<>>, more, count, then)
    BY NoText DEF InOrder, Before

\* A client sends its next line, or a piece.
LEMMA SendIn ==
    ASSUME NEW mine \in Seq(Nat), NEW text \in Seq(Nat), NEW more \in Seq(Nat),
           NEW count \in Nat, NEW only, InOrder(mine, text, more, count, only)
    PROVE  /\ InOrder(mine, text, Append(more, count + 1), count + 1, only)
           /\ InOrder(mine, text, Append(more, Half), count, only)
<1>1. /\ Numbers(Append(more, Half)) = Numbers(more)
      /\ Sorted(Append(more, Half)) <=> Sorted(more)
    BY GrownHalf
<1>2. /\ Numbers(Append(more, count + 1)) = Numbers(more) \cup {count + 1}
      /\ Sorted(Append(more, count + 1)) <=> Sorted(more) /\ Before(Numbers(more), {count + 1})
    <2>1. count + 1 \in Nat \ {Half}
        BY DEF Half
    <2> QED
        BY <2>1, GrownLine
<1>3. 1 .. count + 1 = (1 .. count) \cup {count + 1} /\ \A n \in 1 .. count : n < count + 1
    OBVIOUS
<1> QED
    BY <1>1, <1>2, <1>3 DEF InOrder, Before

LEMMA WholeWay ==
    ASSUME NEW mine \in Seq(Nat), NEW text \in Seq(Nat), NEW more \in Seq(Nat),
           NEW count, NEW only, InOrder(mine, text, more, count, only)
    PROVE  /\ Sorted(mine \o text \o more)
           /\ only => Numbers(mine \o text \o more) = 1 .. count
<1>1. /\ mine \o text \in Seq(Nat)
      /\ Numbers(mine \o text) = Numbers(mine) \cup Numbers(text)
      /\ Sorted(mine \o text)
    BY Joined DEF InOrder
<1>2. Before(Numbers(mine \o text), Numbers(more))
    BY <1>1 DEF InOrder, Before
<1>3. /\ Numbers(mine \o text \o more) = Numbers(mine \o text) \cup Numbers(more)
      /\ Sorted(mine \o text \o more)
    BY <1>1, <1>2, Joined DEF InOrder
<1> QED
    BY <1>1, <1>3 DEF InOrder

LEMMA MineType == ASSUME Texts, NEW c PROVE Mine(c) \in Seq(Nat)
<1>1. relayed \in Seq(Said)
    BY DEF Texts
<1>2. \A i \in DOMAIN relayed : relayed[i] \in Said /\ DOMAIN relayed = 1 .. Len(relayed)
    BY <1>1, LenProperties
<1>3. \A i \in DOMAIN relayed : Mine(c)[i] \in Nat
    BY <1>2 DEF Said, Mine, Half
<1>4. Mine(c) \in [1 .. Len(relayed) -> Nat] /\ Len(relayed) \in Nat
    BY <1>1, <1>3, LenProperties DEF Mine
<1> QED
    BY <1>4, SeqDef

\* A line relayed is one more of its client's and a gap in another's.
LEMMA MineGrows ==
    ASSUME Texts, NEW c, NEW d \in Clients, NEW n \in Nat,
           relayed' = Append(relayed, <<d, n>>)
    PROVE  /\ Mine(c)' = Append(Mine(c), IF d = c THEN n ELSE Half)
           /\ Only(c)' => Only(c) /\ d = c
<1> DEFINE m == IF d = c THEN n ELSE Half
           l == Len(relayed)
<1>1. /\ relayed \in Seq(Said) /\ <<d, n>> \in Said /\ l \in Nat /\ DOMAIN relayed = 1 .. l
      /\ DOMAIN relayed' = 1 .. l + 1 /\ relayed'[l + 1] = <<d, n>>
      /\ \A i \in 1 .. l : relayed'[i] = relayed[i]
    BY AppendProperties, LenProperties DEF Texts, Said
<1>2. Mine(c) \in Seq(Nat) /\ m \in Nat /\ DOMAIN Mine(c) = 1 .. l
    BY <1>1, MineType DEF Mine, Half
<1>3. Len(Mine(c)) = l
    BY <1>1, <1>2, LenProperties
<1> HIDE DEF l, m
<1>4. /\ DOMAIN Append(Mine(c), m) = 1 .. l + 1 /\ Append(Mine(c), m)[l + 1] = m
      /\ \A i \in 1 .. l : Append(Mine(c), m)[i] = Mine(c)[i]
    BY <1>2, <1>3, AppendProperties
<1>5. /\ DOMAIN Mine(c)' = 1 .. l + 1 /\ Mine(c)'[l + 1] = m
      /\ \A i \in 1 .. l : Mine(c)'[i] = Mine(c)[i]
    BY <1>1 DEF Mine, m
<1>6. \A i \in 1 .. l + 1 : i \in 1 .. l \/ i = l + 1
    BY <1>1
<1>7. Mine(c)' = Append(Mine(c), m)
    <2>1. Append(Mine(c), m) \in Seq(Nat) /\ Len(Append(Mine(c), m)) = l + 1
        BY <1>2, <1>3, AppendProperties
    <2>2. Append(Mine(c), m) = [i \in 1 .. l + 1 |-> Append(Mine(c), m)[i]]
        BY <1>4, <2>1, LenProperties
    <2>3. Mine(c)' = [i \in 1 .. l + 1 |-> Mine(c)'[i]]
        BY <1>1 DEF Mine
    <2> QED
        BY <1>4, <1>5, <1>6, <2>2, <2>3
<1>8. Only(c)' => Only(c) /\ d = c
    BY <1>1 DEF Only
<1> QED
    BY <1>7, <1>8 DEF m
LEMMA NextOrder == ASSUME Server, Texts, Order, [Next]_vars PROVE Order'
<1> SUFFICES ASSUME NEW c \in Clients
             PROVE  InOrder(Mine(c)', buf'[c], sock'[c], typed'[c], Only(c)')
    BY DEF Order
<1>1. /\ Mine(c) \in Seq(Nat) /\ buf[c] \in Seq(Nat) /\ sock[c] \in Seq(Nat)
      /\ typed[c] \in Nat
      /\ buf \in [Clients -> Seq(Nat)] /\ sock \in [Clients -> Seq(Nat)]
      /\ typed \in [Clients -> Nat]
    BY MineType DEF Texts
<1>2. InOrder(Mine(c), buf[c], sock[c], typed[c], Only(c))
    BY DEF Order
<1>3. UNCHANGED relayed => Mine(c)' = Mine(c) /\ Only(c)' = Only(c)
    BY DEF Mine, Only
\* Steps that leave the text of c alone.
<1>4. ASSUME UNCHANGED relayed, buf'[c] = buf[c], sock'[c] = sock[c], typed'[c] = typed[c]
      PROVE  InOrder(Mine(c)', buf'[c], sock'[c], typed'[c], Only(c)')
    BY <1>2, <1>3, <1>4
<1>5. CASE UNCHANGED <<relayed, buf, sock, typed>>
    BY <1>4, <1>5
<1>6. ASSUME Poll \/ Accept \/ Handle \/ Forwarded \/ BatchDone \/ Stop
      PROVE  UNCHANGED <<relayed, buf, sock, typed>>
    BY <1>6 DEF Poll, Accept, Handle, Forwarded, BatchDone, Stop, client, history
<1>7. ASSUME NEW d \in Clients, Connect(d) \/ PrintLine(d) \/ Leave(d) \/ Reset(d)
      PROVE  UNCHANGED <<relayed, buf, sock, typed>>
    BY <1>7 DEF Connect, PrintLine, Leave, Reset, client, history
<1>8. ASSUME Readline PROVE InOrder(Mine(c)', buf'[c], sock'[c], typed'[c], Only(c)')
    <2>1. fd \in clients /\ fd \in Clients /\ UNCHANGED typed
        BY <1>8, ReadlineWays DEF Server, client
    <2>2. CASE ReadWhole
        <3>1. /\ buf[fd] \in Seq(Nat) /\ Lines(buf[fd]) # {}
              /\ ForwardLine(buf[fd][First(buf[fd])], Remainder(buf[fd])) /\ UNCHANGED sock
            BY <1>1, <2>1, <2>2 DEF ReadWhole
        <3>2. buf[fd][First(buf[fd])] \in Nat
            BY <3>1, Taken
        <3>3. relayed' = Append(relayed, <<fd, buf[fd][First(buf[fd])]>>)
            BY <3>1 DEF ForwardLine
        <3>4. CASE fd = c
            <4>1. buf'[c] = Remainder(buf[c]) /\ sock'[c] = sock[c]
                BY <1>1, <3>1, <3>4 DEF ForwardLine
            <4>2. /\ Mine(c)' = Append(Mine(c), buf[c][First(buf[c])])
                  /\ Only(c)' => Only(c)
                BY <2>1, <3>2, <3>3, <3>4, MineGrows
            <4>3. InOrder(Append(Mine(c), buf[c][First(buf[c])]), Remainder(buf[c]),
                          sock[c], typed[c], Only(c))
                BY <1>1, <1>2, <3>1, <3>4, TakeIn
            <4> QED
                BY <2>1, <4>1, <4>2, <4>3 DEF InOrder
        <3>5. CASE fd # c
            <4>1. buf'[c] = buf[c] /\ sock'[c] = sock[c]
                BY <1>1, <3>1, <3>5 DEF ForwardLine
            <4>2. Mine(c)' = Append(Mine(c), Half) /\ (Only(c)' => Only(c))
                BY <2>1, <3>2, <3>3, <3>5, MineGrows
            <4> QED
                BY <1>1, <1>2, <2>1, <4>1, <4>2, HalfIn
        <3> QED
            BY <3>4, <3>5
    <2>3. CASE ReadMore
        <3>1. UNCHANGED relayed
            BY <2>3 DEF ReadMore
        <3>2. CASE fd = c
            <4>1. buf'[c] = buf[c] \o sock[c] /\ sock'[c] = <<>>
                BY <1>1, <2>3, <3>2 DEF ReadMore
            <4> QED
                BY <1>1, <1>2, <1>3, <2>1, <3>1, <4>1, ReadIn
        <3>3. CASE fd # c
            <4>1. buf'[c] = buf[c] /\ sock'[c] = sock[c]
                BY <1>1, <2>3, <3>3 DEF ReadMore
            <4> QED
                BY <1>4, <2>1, <3>1, <4>1
        <3> QED
            BY <3>2, <3>3
    <2>4. CASE ReadRest
        <3>1. /\ ForwardLine(Half, <<>>) /\ UNCHANGED sock /\ Lines(buf[fd]) = {}
              /\ relayed' = Append(relayed, <<fd, Half>>) /\ Half \in Nat
            BY <2>4 DEF ReadRest, ForwardLine, Half
        <3>2. Mine(c)' = Append(Mine(c), Half) /\ (Only(c)' => Only(c))
            BY <2>1, <3>1, MineGrows
        <3>3. InOrder(Mine(c)', buf[c], sock[c], typed[c], Only(c)')
            BY <1>1, <1>2, <3>2, HalfIn
        <3>4. CASE fd = c
            <4>1. buf'[c] = <<>> /\ sock'[c] = sock[c]
                BY <1>1, <3>1, <3>4 DEF ForwardLine
            <4>2. Numbers(buf[c]) = {}
                BY <3>1, <3>4 DEF Numbers
            <4> QED
                BY <2>1, <3>3, <4>1, <4>2, DropIn
        <3>5. CASE fd # c
            <4>1. buf'[c] = buf[c] /\ sock'[c] = sock[c]
                BY <1>1, <3>1, <3>5 DEF ForwardLine
            <4> QED
                BY <2>1, <3>3, <4>1
        <3> QED
            BY <3>4, <3>5
    <2>5. CASE ReadFails
        BY <1>5, <2>1, <2>5 DEF ReadFails
    <2> QED
        BY <1>8, <2>2, <2>3, <2>4, <2>5, ReadlineWays
\* A write to c may lose text, and then another client's line is relayed.
<1>9. ASSUME Forward PROVE InOrder(Mine(c)', buf'[c], sock'[c], typed'[c], Only(c)')
    <2>1. UNCHANGED <<relayed, sock, typed, fd, line>>
        BY <1>9, ForwardWays DEF client, history
    <2>2. CASE UNCHANGED buf
        BY <1>5, <2>1, <2>2
    <2>3. ASSUME NEW d \in todo, NEW rest \in AfterWrite(buf[d]),
                 buf' = [buf EXCEPT ![d] = rest]
          PROVE  InOrder(Mine(c)', buf'[c], sock'[c], typed'[c], Only(c)')
        <3>1. CASE buf'[c] = buf[c]
            BY <1>4, <2>1, <3>1
        <3>2. CASE buf'[c] # buf[c]
            <4>1. d = c /\ buf'[c] = <<>>
                BY <1>1, <2>3, <3>2 DEF AfterWrite
            <4>2. ~Only(c)
                <5>1. /\ relayed[Len(relayed)] = <<fd, line>> /\ fd # c
                      /\ relayed \in Seq(Said) /\ joined[c] < Len(relayed) /\ joined[c] \in Nat
                    BY <1>9, <2>3, <4>1 DEF Server, Texts
                <5>2. Len(relayed) \in DOMAIN relayed
                    BY <5>1, LenProperties
                <5> QED
                    BY <5>1, <5>2 DEF Only
            <4> QED
                BY <1>2, <1>3, <2>1, <4>1, <4>2, DropIn
        <3> QED
            BY <3>1, <3>2
    <2> QED
        BY <1>9, <2>2, <2>3, ForwardWays
<1>10. ASSUME NEW d \in Clients, Sends(d)
       PROVE  InOrder(Mine(c)', buf'[c], sock'[c], typed'[c], Only(c)')
    <2>1. UNCHANGED <<relayed, buf>>
        BY <1>10, Sending DEF history
    <2>2. CASE UNCHANGED <<sock, typed>>
        BY <1>5, <2>1, <2>2
    <2>3. CASE Send(d, typed'[d]) /\ typed' = [typed EXCEPT ![d] = @ + 1]
        <3>1. sock' = [sock EXCEPT ![d] = Append(@, typed'[d])]
            BY <2>3 DEF Send
        <3>2. CASE d # c
            BY <1>1, <1>4, <2>1, <2>3, <3>1, <3>2
        <3>3. CASE d = c
            <4>1. typed'[c] = typed[c] + 1 /\ sock'[c] = Append(sock[c], typed[c] + 1)
                BY <1>1, <2>3, <3>1, <3>3
            <4> QED
                BY <1>1, <1>2, <1>3, <2>1, <4>1, SendIn
        <3> QED
            BY <3>2, <3>3
    <2>4. CASE Send(d, Half) /\ UNCHANGED typed
        <3>1. sock' = [sock EXCEPT ![d] = Append(@, Half)]
            BY <2>4 DEF Send
        <3>2. CASE d # c
            BY <1>1, <1>4, <2>1, <2>4, <3>1, <3>2
        <3>3. CASE d = c
            <4>1. typed'[c] = typed[c] /\ sock'[c] = Append(sock[c], Half)
                BY <1>1, <2>4, <3>1, <3>3
            <4> QED
                BY <1>1, <1>2, <1>3, <2>1, <4>1, SendIn
        <3> QED
            BY <3>2, <3>3
    <2> QED
        BY <1>10, <2>2, <2>3, <2>4, Sending
<1>11. CASE UNCHANGED vars
    BY <1>5, <1>11 DEF vars, client, history
<1> QED
    BY <1>5, <1>6, <1>7, <1>8, <1>9, <1>10, <1>11 DEF Next, ServerStep, Sends
-----------------------------------------------------------------------------
(* A client gets lines of one conversation, in the order of the server.    *)

\* What has been got is, in order, at growing places of all that are due, and
\* at every one of them if whole is true.
Embeds(got, due, all, whole) ==
    \E at \in [DOMAIN got -> due] :
        /\ \A j, k \in DOMAIN at : j < k => at[j] < at[k]
        /\ \A k \in DOMAIN at : got[k] = all[at[k]]
        /\ whole => Range(at) = due

LEMMA EmbedsSame ==
    ASSUME NEW got, NEW due, NEW all, NEW whole, Embeds(got, due, all, whole),
           NEW more, \A i \in due : more[i] = all[i],
           NEW then, then => whole
    PROVE  Embeds(got, due, more, then)
<1>1. PICK at \in [DOMAIN got -> due] :
           /\ \A j, k \in DOMAIN at : j < k => at[j] < at[k]
           /\ \A k \in DOMAIN at : got[k] = all[at[k]]
           /\ whole => Range(at) = due
    BY DEF Embeds
<1>2. \A k \in DOMAIN at : got[k] = more[at[k]]
    BY <1>1
<1> QED
    BY <1>1, <1>2 DEF Embeds

\* The last line is sent, too.
LEMMA EmbedsGrow ==
    ASSUME NEW got \in Seq(Said), NEW due, NEW all, NEW whole, Embeds(got, due, all, whole),
           due \subseteq Nat, NEW last \in Nat, \A i \in due : i < last,
           all[last] \in Said
    PROVE  Embeds(Append(got, all[last]), due \cup {last}, all, whole)
<1> DEFINE new == Append(got, all[last])
           l == Len(got)
           both == due \cup {last}
<1>1. /\ l \in Nat /\ DOMAIN got = 1 .. l /\ DOMAIN new = 1 .. l + 1
      /\ new[l + 1] = all[last] /\ \A k \in 1 .. l : new[k] = got[k]
    BY AppendProperties, LenProperties
<1> HIDE DEF l, new
<1>2. PICK at \in [1 .. l -> due] :
           /\ \A j, k \in 1 .. l : j < k => at[j] < at[k]
           /\ \A k \in 1 .. l : got[k] = all[at[k]]
           /\ whole => Range(at) = due
    BY <1>1 DEF Embeds
<1> DEFINE there == [k \in 1 .. l + 1 |-> IF k = l + 1 THEN last ELSE at[k]]
<1>3. \A k \in 1 .. l + 1 : k \in 1 .. l \/ k = l + 1
    BY <1>1
<1>4. /\ DOMAIN there = 1 .. l + 1 /\ there[l + 1] = last
      /\ \A k \in 1 .. l : there[k] = at[k] /\ there[k] \in due /\ k < l + 1 /\ k \in 1 .. l + 1
    BY <1>1, <1>2
<1>5. there \in [1 .. l + 1 -> both]
    BY <1>3, <1>4
<1> HIDE DEF there
<1>6. ASSUME NEW j \in 1 .. l + 1, NEW k \in 1 .. l + 1, j < k PROVE there[j] < there[k]
    <2>1. j \in 1 .. l
        BY <1>1, <1>6
    <2>2. CASE k = l + 1
        BY <1>4, <2>1, <2>2
    <2>3. CASE k \in 1 .. l
        BY <1>2, <1>4, <1>6, <2>1, <2>3
    <2> QED
        BY <1>3, <2>2, <2>3
<1>7. \A k \in 1 .. l + 1 : new[k] = all[there[k]]
    BY <1>1, <1>2, <1>3, <1>4
<1>8. ASSUME whole PROVE Range(there) = both
    <2>1. \A k \in 1 .. l + 1 : there[k] \in both
        BY <1>5
    <2>2. \A i \in due : \E k \in 1 .. l : i = at[k]
        BY <1>2, <1>8 DEF Range
    <2>3. \A i \in both : \E k \in 1 .. l + 1 : i = there[k]
        <3>1. \A i \in due : \E k \in 1 .. l + 1 : i = there[k]
            BY <1>4, <2>2
        <3>2. l + 1 \in 1 .. l + 1
            BY <1>1
        <3> QED
            BY <1>4, <3>1, <3>2
    <2> QED
        BY <1>4, <2>1, <2>3 DEF Range
<1>9. Embeds(new, both, all, whole)
    BY <1>1, <1>4, <1>5, <1>6, <1>7, <1>8 DEF Embeds
<1> QED
    BY <1>9 DEF new

\* The client's file object loses what it holds.
LEMMA EmbedsDrop ==
    ASSUME NEW p \in Seq(Said), NEW q \in Seq(Said), NEW r \in Seq(Said),
           NEW due, NEW all, NEW whole, Embeds(p \o q \o r, due, all, whole)
    PROVE  Embeds(p \o <<>> \o r, due, all, FALSE)
<1> DEFINE old == p \o q \o r
           new == p \o r
           a == Len(p)
           b == Len(q)
           d == Len(r)
<1>1. /\ a \in Nat /\ b \in Nat /\ d \in Nat
      /\ DOMAIN new = 1 .. a + d /\ DOMAIN old = 1 .. a + b + d
      /\ \A k \in 1 .. a : new[k] = p[k] /\ old[k] = p[k]
      /\ \A k \in 1 .. d : new[a + k] = r[k] /\ old[a + b + k] = r[k]
    <2>1. /\ p \o q \in Seq(Said) /\ Len(p \o q) = a + b
          /\ \A k \in 1 .. a : (p \o q)[k] = p[k]
        BY ConcatProperties, LenProperties
    <2>2. /\ a \in Nat /\ b \in Nat /\ d \in Nat
          /\ DOMAIN new = 1 .. a + d /\ DOMAIN old = 1 .. Len(p \o q) + d
        BY <2>1, ConcatProperties, LenProperties
    <2>3. /\ \A k \in 1 .. a : new[k] = p[k]
          /\ \A k \in 1 .. d : new[a + k] = r[k]
        BY LenProperties
    <2>4. /\ \A k \in 1 .. Len(p \o q) : old[k] = (p \o q)[k]
          /\ \A k \in 1 .. d : old[Len(p \o q) + k] = r[k]
        BY <2>1, LenProperties
    <2>5. \A k \in 1 .. a : k \in 1 .. a + b
        BY <2>2
    <2> QED
        BY <2>1, <2>2, <2>3, <2>4, <2>5
<1>2. p \o <<>> \o r = new
    BY ConcatEmptySeq
<1> HIDE DEF a, b, d, old, new
<1>3. PICK at \in [1 .. a + b + d -> due] :
           /\ \A j, k \in 1 .. a + b + d : j < k => at[j] < at[k]
           /\ \A k \in 1 .. a + b + d : old[k] = all[at[k]]
    <2>1. Embeds(old, due, all, whole)
        BY DEF old
    <2> QED
        BY <1>1, <2>1, ZenonT(40) DEF Embeds
\* Where a line that is left has been.
<1> DEFINE was(k) == IF k <= a THEN k ELSE k + b
           there == [k \in 1 .. a + d |-> at[was(k)]]
<1>4. ASSUME NEW k \in 1 .. a + d PROVE was(k) \in 1 .. a + b + d /\ new[k] = old[was(k)]
    <2>1. CASE k <= a
        BY <1>1, <2>1
    <2>2. CASE ~(k <= a)
        <3>1. k - a \in 1 .. d /\ k = a + (k - a) /\ was(k) = a + b + (k - a)
            BY <1>1, <2>2
        <3>2. was(k) \in 1 .. a + b + d
            BY <1>1, <3>1
        <3> QED
            BY <1>1, <3>1, <3>2, ZenonT(40)
    <2> QED
        BY <2>1, <2>2
<1>5. ASSUME NEW j \in 1 .. a + d, NEW k \in 1 .. a + d, j < k PROVE was(j) < was(k)
    BY <1>1, <1>5
<1> HIDE DEF was
<1>6. there \in [1 .. a + d -> due] /\ \A k \in 1 .. a + d : there[k] = at[was(k)]
    BY <1>3, <1>4
<1> HIDE DEF there
<1>7. /\ \A j, k \in 1 .. a + d : j < k => there[j] < there[k]
      /\ \A k \in 1 .. a + d : new[k] = all[there[k]]
    BY <1>3, <1>4, <1>5, <1>6
<1>8. DOMAIN there = 1 .. a + d
    BY <1>6
<1>9. Embeds(new, due, all, FALSE)
    <2>1. /\ there \in [DOMAIN new -> due]
          /\ \A j, k \in DOMAIN there : j < k => there[j] < there[k]
          /\ \A k \in DOMAIN there : new[k] = all[there[k]]
        BY <1>1, <1>6, <1>7, <1>8
    <2> QED
        BY <2>1 DEF Embeds
<1> QED
    BY <1>2, <1>9
LEMMA SentLast ==
    ASSUME NEW p \in Seq(Said), NEW q \in Seq(Said), NEW r \in Seq(Said), NEW m \in Said
    PROVE  p \o q \o Append(r, m) = Append(p \o q \o r, m)
<1>1. p \o q \in Seq(Said) /\ p \o q \o r \in Seq(Said) /\ <<m>> \in Seq(Said)
    BY ConcatProperties
<1>2. Append(r, m) = r \o <<m>> /\ Append(p \o q \o r, m) = p \o q \o r \o <<m>>
    BY <1>1, AppendIsConcat
<1> QED
    BY <1>1, <1>2, ConcatAssociative

Listens(c) == c \notin wrote
Follows(c) == Embeds(Got(c), Due(c), relayed, Listens(c))

LEMMA ConversationFollows == OneConversation <=> \A c \in clients : Follows(c)
    BY DEF OneConversation, Follows, Embeds, Listens

LEMMA GotType == ASSUME Texts, NEW c \in Clients PROVE Got(c) \in Seq(Said)
<1>1. printed[c] \in Seq(Said) /\ cbuf[c] \in Seq(Said) /\ inbox[c] \in Seq(Said)
    BY DEF Texts
<1> QED
    BY <1>1, ConcatProperties DEF Got

LEMMA DueType ==
    ASSUME Texts, NEW c \in Clients
    PROVE  Due(c) \subseteq 1 .. Len(relayed)
    BY DEF Texts, Due

\* What readline relays is not yet due to the others and never to the sender.
LEMMA RelayingDue ==
    ASSUME Server, Texts, fd \in clients, todo = {}, NEW n \in Nat, NEW rest,
           ForwardLine(n, rest), UNCHANGED <<fd, clients, joined>>, NEW c \in clients
    PROVE  Due(c)' = Due(c) /\ \A i \in Due(c) : relayed'[i] = relayed[i]
<1>1. <<fd, n>> \in Said /\ c \in Clients
    BY DEF Server, Said
<1>2. /\ Len(relayed') = Len(relayed) + 1 /\ Len(relayed) \in Nat
      /\ relayed'[Len(relayed) + 1] = <<fd, n>>
      /\ \A i \in 1 .. Len(relayed) : relayed'[i] = relayed[i]
    BY <1>1, AppendProperties DEF ForwardLine, Texts
<1>3. todo' = clients \ {fd}
    BY DEF ForwardLine
<1>4. joined[c] \in Nat /\ joined'[c] = joined[c]
    BY <1>1 DEF Texts
<1>5. \A i \in Due(c) : relayed'[i] = relayed[i]
    BY <1>1, <1>2, DueType
<1>6. ASSUME NEW i \in Due(c) PROVE i \in Due(c)'
    <2>1. i \in joined[c] + 1 .. Len(relayed) /\ relayed[i][1] # c
        BY DEF Due
    <2>2. i \in joined'[c] + 1 .. Len(relayed') /\ i < Len(relayed')
        BY <1>2, <1>4, <2>1
    <2> QED
        BY <1>5, <2>1, <2>2 DEF Due
<1>7. ASSUME NEW i \in Due(c)' PROVE i \in Due(c)
    <2>1. i \in joined[c] + 1 .. Len(relayed) + 1 /\ relayed'[i][1] # c
        BY <1>2, <1>4 DEF Due
    <2>2. i # Len(relayed) + 1
        <3>1. CASE c = fd
            BY <1>2, <2>1, <3>1
        <3>2. CASE c # fd
            BY <1>2, <1>3, <3>2 DEF Due
        <3> QED
            BY <3>1, <3>2
    <2>3. i \in joined[c] + 1 .. Len(relayed) /\ i \in 1 .. Len(relayed)
        BY <1>2, <1>4, <2>1, <2>2
    <2> QED
        BY <1>2, <2>1, <2>3 DEF Due
<1> QED
    BY <1>5, <1>6, <1>7

LEMMA NextConversation ==
    ASSUME Server, Texts, OneConversation, [Next]_vars
    PROVE  OneConversation'
<1> SUFFICES ASSUME NEW c \in clients' PROVE Follows(c)'
    BY DEF OneConversation, Follows, Embeds, Listens
<1>1. c \in clients => c \in Clients /\ Follows(c)
    BY ConversationFollows DEF Server
\* Steps that leave what c has got and what it is due.
<1>2. ASSUME c \in clients, Got(c)' = Got(c), Due(c)' = Due(c),
             \A i \in Due(c) : relayed'[i] = relayed[i], Listens(c)' => Listens(c)
      PROVE  Follows(c)'
    BY <1>1, <1>2, EmbedsSame DEF Follows
<1>3. ASSUME UNCHANGED <<clients, printed, cbuf, inbox, relayed, joined, todo, wrote>>
      PROVE  Follows(c)'
    <2>1. Got(c)' = Got(c) /\ Due(c)' = Due(c) /\ Listens(c)' = Listens(c)
        BY <1>3 DEF Got, Due, Listens
    <2> QED
        BY <1>2, <1>3, <2>1
<1>4. CASE Poll \/ Handle \/ Forwarded \/ BatchDone \/ Stop \/ UNCHANGED vars
    BY <1>3, <1>4 DEF Poll, Handle, Forwarded, BatchDone, Stop, vars, server, client, history
<1>5. ASSUME NEW d \in Clients, Connect(d) \/ Leave(d) \/ Reset(d) PROVE Follows(c)'
    BY <1>3, <1>5 DEF Connect, Leave, Reset, server, client, history
<1>6. CASE Accept
    <2>1. PICK d \in backlog : clients' = clients \cup {d}
                            /\ joined' = [joined EXCEPT ![d] = Len(relayed)]
        BY <1>6 DEF Accept
    <2>2. /\ d \in Clients \ clients /\ todo = {}
          /\ UNCHANGED <<todo, inbox, printed, cbuf, relayed, wrote>>
        BY <1>6, <2>1 DEF Accept, Server, client
    <2>3. Got(c)' = Got(c) /\ Listens(c)' = Listens(c)
        BY <2>2 DEF Got, Listens
    <2>4. CASE c = d
        <3>1. Got(c)' = <<>>
            BY <2>2, <2>3, <2>4 DEF Got, Texts
        <3>2. joined'[c] = Len(relayed) /\ Len(relayed) \in Nat
            BY <2>1, <2>2, <2>4 DEF Texts
        <3>3. Due(c)' = {}
            BY <2>2, <3>2 DEF Due
        <3> DEFINE at == [k \in {} |-> k]
        <3>4. DOMAIN <<>> = {} /\ at \in [{} -> {}] /\ DOMAIN at = {} /\ Range(at) = {}
            BY DEF Range
        <3>5. Embeds(<<>>, {}, relayed', Listens(c)')
            BY <3>4 DEF Embeds
        <3> QED
            BY <3>1, <3>3, <3>5 DEF Follows
    <2>5. CASE c # d
        <3>1. c \in clients /\ joined'[c] = joined[c]
            BY <1>1, <2>1, <2>2, <2>5 DEF Texts, Server
        <3>2. Due(c)' = Due(c)
            BY <2>2, <3>1 DEF Due
        <3> QED
            BY <1>2, <2>2, <2>3, <3>1, <3>2
    <2> QED
        BY <2>4, <2>5
<1>7. CASE Readline
    <2>1. /\ fd \in clients /\ todo = {} /\ c \in clients
          /\ UNCHANGED <<fd, clients, inbox, client, joined>>
        BY <1>7, ReadlineWays DEF Server
    <2>2. Got(c)' = Got(c) /\ Listens(c)' = Listens(c)
        BY <2>1 DEF Got, Listens, client
    <2>3. ASSUME NEW n \in Nat, NEW rest, ForwardLine(n, rest) PROVE Follows(c)'
        BY <1>2, <2>1, <2>2, <2>3, RelayingDue
    <2>4. CASE ReadWhole
        <3>1. buf[fd] \in Seq(Nat)
            BY <2>1 DEF Server, Texts
        <3>2. buf[fd][First(buf[fd])] \in Nat
            BY <2>4, <3>1, Taken DEF ReadWhole
        <3> QED
            BY <2>3, <2>4, <3>2 DEF ReadWhole
    <2>5. CASE ReadRest
        BY <2>3, <2>5 DEF ReadRest, Half
    <2>6. CASE ReadMore \/ ReadFails
        BY <1>3, <2>1, <2>6 DEF ReadMore, ReadFails, client
    <2> QED
        BY <1>7, <2>4, <2>5, <2>6, ReadlineWays
<1>8. CASE Forward
    <2>1. c \in clients /\ c \in Clients
          /\ UNCHANGED <<fd, line, clients, printed, cbuf, wrote, relayed, joined>>
        BY <1>1, <1>8, ForwardWays DEF client, history
    <2>2. CASE UNCHANGED <<todo, inbox, buf>>
        BY <1>3, <2>1, <2>2
    <2>3. ASSUME NEW d \in todo, todo' = todo \ {d},
                 inbox' = [inbox EXCEPT ![d] = Append(@, <<fd, line>>)]
          PROVE  Follows(c)'
        <3>1. CASE c # d
            <4>1. inbox'[c] = inbox[c] /\ (c \in todo' <=> c \in todo)
                BY <2>1, <2>3, <3>1 DEF Texts
            <4>2. Got(c)' = Got(c) /\ Due(c)' = Due(c) /\ Listens(c)' = Listens(c)
                BY <2>1, <4>1 DEF Got, Due, Listens
            <4> QED
                BY <1>2, <2>1, <4>2
        <3>2. CASE c = d
            <4> DEFINE last == Len(relayed)
            <4>1. /\ c \in todo /\ c \notin todo' /\ fd # c
                  /\ relayed \in Seq(Said) /\ last \in Nat /\ joined[c] \in Nat
                  /\ joined[c] < last /\ relayed[last] = <<fd, line>>
                <5>1. c \in todo /\ c \notin todo'
                    BY <2>3, <3>2
                <5>2. fd # c
                    BY <5>1 DEF Server
                <5>3. relayed \in Seq(Said) /\ joined[c] \in Nat
                    BY <2>1 DEF Texts
                <5>4. joined[c] < last /\ relayed[last] = <<fd, line>>
                    BY <5>1 DEF Texts
                <5>5. last \in Nat
                    BY <5>3, LenProperties
                <5> QED
                    BY <5>1, <5>2, <5>3, <5>4, <5>5
            <4>2. relayed[last] \in Said
                BY <4>1, LenProperties
            <4>3. Due(c)' = Due(c) \cup {last} /\ Due(c) \subseteq Nat /\ \A i \in Due(c) : i < last
                BY <2>1, <4>1 DEF Due
            <4>4. Got(c)' = Append(Got(c), relayed[last])
                <5>1. /\ printed[c] \in Seq(Said) /\ cbuf[c] \in Seq(Said)
                      /\ inbox[c] \in Seq(Said) /\ inbox'[c] = Append(inbox[c], relayed[last])
                    BY <2>1, <2>3, <3>2, <4>1 DEF Texts
                <5>2. Got(c)' = printed[c] \o cbuf[c] \o Append(inbox[c], relayed[last])
                    BY <2>1, <5>1 DEF Got
                <5> QED
                    BY <4>2, <5>1, <5>2, SentLast, Zenon DEF Got
            <4>5. Embeds(Got(c), Due(c), relayed, Listens(c))
                BY <1>1, <2>1 DEF Follows
            <4>6. Embeds(Append(Got(c), relayed[last]), Due(c) \cup {last}, relayed, Listens(c))
                BY <2>1, <4>1, <4>2, <4>3, <4>5, EmbedsGrow, GotType
            <4>7. Listens(c)' = Listens(c)
                BY <2>1 DEF Listens
            <4> QED
                BY <2>1, <4>3, <4>4, <4>6, <4>7 DEF Follows
        <3> QED
            BY <3>1, <3>2
    <2> QED
        BY <1>8, <2>2, <2>3, ForwardWays
<1>9. ASSUME NEW d \in Clients, Sends(d) PROVE Follows(c)'
    <2>1. /\ c \in clients /\ c \in Clients
          /\ UNCHANGED <<clients, printed, inbox, relayed, joined, todo>>
        BY <1>1, <1>9, Sending DEF server, history
    <2>2. Due(c)' = Due(c)
        BY <2>1 DEF Due
    <2>3. wrote' = wrote \cup {d}
        BY <1>9, Sending, Writing
    <2>4. PICK rest \in {<<>>, cbuf[d]} : cbuf' = [cbuf EXCEPT ![d] = rest]
        BY <1>9, Sending, Writing
    <2>5. CASE d # c
        <3>1. cbuf'[c] = cbuf[c]
            BY <2>1, <2>4, <2>5 DEF Texts
        <3>2. Listens(c)' => Listens(c)
            BY <2>3 DEF Listens
        <3>3. Got(c)' = Got(c)
            BY <2>1, <3>1 DEF Got
        <3> QED
            BY <1>2, <2>1, <2>2, <3>2, <3>3
    <2>6. CASE d = c
        <3>1. ~Listens(c)'
            BY <2>3, <2>6 DEF Listens
        <3>2. cbuf'[c] \in {<<>>, cbuf[c]}
            BY <2>1, <2>4, <2>6 DEF Texts
        <3>3. CASE cbuf'[c] = cbuf[c]
            BY <1>2, <2>1, <2>2, <3>1, <3>3 DEF Got
        <3>4. CASE cbuf'[c] = <<>>
            <4>1. Got(c)' = printed[c] \o <<>> \o inbox[c]
                BY <2>1, <3>4 DEF Got
            <4>2. printed[c] \in Seq(Said) /\ cbuf[c] \in Seq(Said) /\ inbox[c] \in Seq(Said)
                BY <2>1 DEF Texts
            <4>3. Embeds(printed[c] \o <<>> \o inbox[c], Due(c), relayed, FALSE)
                BY <1>1, <2>1, <4>2, EmbedsDrop DEF Follows, Got
            <4>4. Embeds(Got(c)', Due(c), relayed, Listens(c)')
                BY <3>1, <4>1, <4>3, EmbedsSame
            <4> QED
                BY <2>1, <2>2, <4>4 DEF Follows
        <3> QED
            BY <3>2, <3>3, <3>4
    <2> QED
        BY <2>5, <2>6
<1>10. ASSUME NEW d \in Clients, PrintLine(d) PROVE Follows(c)'
    <2>1. /\ c \in clients /\ c \in Clients
          /\ UNCHANGED <<clients, relayed, joined, todo, wrote>>
        BY <1>1, <1>10 DEF PrintLine, server, history
    <2>2. Due(c)' = Due(c) /\ Listens(c)' = Listens(c)
        BY <2>1 DEF Due, Listens
    <2>3. /\ printed[d] \in Seq(Said) /\ cbuf[d] \in Seq(Said) /\ inbox[d] \in Seq(Said)
          /\ inbox \in [Clients -> Seq(Said)] /\ cbuf \in [Clients -> Seq(Said)]
          /\ printed \in [Clients -> Seq(Said)]
        BY DEF Texts
    <2>4. PICK p, q, r \in Seq(Said) :
             /\ printed' = [printed EXCEPT ![d] = p] /\ cbuf' = [cbuf EXCEPT ![d] = q]
             /\ inbox' = [inbox EXCEPT ![d] = r]
             /\ p \o q \o r = printed[d] \o cbuf[d] \o inbox[d]
        BY <1>10, <2>3, PrintWays
    <2>5. Got(c)' = Got(c)
        <3>1. CASE d # c
            BY <2>1, <2>3, <2>4, <3>1 DEF Got
        <3>2. CASE d = c
            <4>1. printed'[c] = p /\ cbuf'[c] = q /\ inbox'[c] = r
                BY <2>1, <2>3, <2>4, <3>2
            <4> QED
                BY <2>4, <3>2, <4>1 DEF Got
        <3> QED
            BY <3>1, <3>2
    <2> QED
        BY <1>2, <2>1, <2>2, <2>5
<1> QED
    BY <1>4, <1>5, <1>6, <1>7, <1>8, <1>9, <1>10 DEF Next, ServerStep, Sends

-----------------------------------------------------------------------------
(* The theorems.                                                           *)

RInv == Server /\ Texts /\ Order /\ OneConversation

LEMMA InitRInv == Init => RInv
<1> SUFFICES ASSUME Init PROVE RInv
    OBVIOUS
<1> USE RelayAssumption DEF Init
<1>1. Server
    BY DEF Server, Half, OneOf
<1>2. Texts
    BY DEF Texts
<1>3. OneConversation
    BY DEF OneConversation
<1>4. Order
    <2>1. \A c \in Clients : Mine(c) = <<>> /\ buf[c] = <<>> /\ sock[c] = <<>> /\ typed[c] = 0
        BY DEF Mine
    <2>2. 1 .. 0 = {}
        OBVIOUS
    <2> QED
        BY <2>1, <2>2, NoText DEF Order, InOrder, Before
<1> QED
    BY <1>1, <1>2, <1>3, <1>4 DEF RInv

LEMMA NextRInv == RInv /\ [Next]_vars => RInv'
<1> SUFFICES ASSUME RInv, [Next]_vars PROVE RInv'
    OBVIOUS
<1>1. buf \in [Clients -> Seq(Nat)]
    BY DEF RInv, Texts
<1> QED
    BY <1>1, NextServer, NextTexts, NextOrder, NextConversation DEF RInv

(* Only accepted clients have events, a file object and receivers, whoever *)
(* connects, leaves or is reset when.                                      *)
THEOREM TypeCorrect == Spec => []TypeOK
<1>1. RInv => TypeOK
    BY DEF RInv, Server, Texts, TypeOK
<1> QED
    BY <1>1, InitRInv, NextRInv, PTL DEF Spec

(* tcp-server.py:34-40: what a client has got are lines due to it, in the  *)
(* order in which the server has read them; a client that has never        *)
(* written, not even the nothing of an ended input, lacks none.            *)
THEOREM Conversation == Spec => []OneConversation
<1>1. RInv => OneConversation
    BY DEF RInv
<1> QED
    BY <1>1, InitRInv, NextRInv, PTL DEF Spec

(* tcp-server.py:31: the server reads the lines of a client in their order *)
(* and none twice, and all of them if it relays nobody else's.             *)
THEOREM InOrderRead == Spec => []ReadInOrder
<1>1. RInv => ReadInOrder
    <2> SUFFICES ASSUME RInv, NEW c \in clients
                 PROVE  /\ \A i, j \in Lines(Way(c)) : i < j => Way(c)[i] < Way(c)[j]
                        /\ Only(c) => {Way(c)[i] : i \in Lines(Way(c))} = 1 .. typed[c]
        BY DEF ReadInOrder, Only
    <2>1. /\ c \in Clients /\ buf[c] \in Seq(Nat) /\ sock[c] \in Seq(Nat)
          /\ Mine(c) \in Seq(Nat)
          /\ InOrder(Mine(c), buf[c], sock[c], typed[c], Only(c))
        BY MineType DEF RInv, Server, Texts, Order
    <2>2. Way(c) = Mine(c) \o buf[c] \o sock[c]
        BY DEF Way, Mine
    <2>3. Sorted(Way(c)) /\ (Only(c) => Numbers(Way(c)) = 1 .. typed[c])
        BY <2>1, <2>2, WholeWay
    <2> QED
        BY <2>3 DEF Sorted, Numbers
<1> QED
    BY <1>1, InitRInv, NextRInv, PTL DEF Spec
=============================================================================
