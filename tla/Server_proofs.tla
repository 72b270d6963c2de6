----------------------------- MODULE Server_proofs -----------------------------
(***************************************************************************)
(* Theorems about Server for any numbers of connections, processors,       *)
(* descriptors and chunks: its invariants.  IInv says whose every event,   *)
(* registration and descriptor is; Conversation what a patient peer and    *)
(* its processor have of each other.                                       *)
(***************************************************************************)
EXTENDS Server, SequenceTheorems, TLAPS

USE NPositive, BoundsPositive

-------------------------------------------------------------------------------
(* The inductive invariant *)

Chunks == Seq(1 .. MaxSent)

\* A processor that reads or answers does so for one of its events.
AtWork ==
  \A p \in Proc : ppc[p] \in {"read", "answer"} =>
    /\ got[p] \in [event : Event, chunks : Chunks]
    /\ Cur(p) \in events[p]
    /\ ~Cur(p).hup

\* Only open connections are registered, each with one processor.
Registered ==
  \A p \in Proc : \A c \in epset[p] :
    /\ fdof[c] # NoFd
    /\ \A q \in Proc : c \in epset[q] => q = p

\* The connection that was just accepted is open and registered nowhere.
JustAccepted ==
  apc = "give" =>
    /\ taken # NoFd
    /\ \E c \in Conn : fdof[c] = taken /\ \A p \in Proc : c \notin epset[p]

\* Each event is the only one of its connection, and what it says is still so,
\* except that the one being answered has been read.
EventsTrue ==
  \A p \in Proc : \A e \in events[p] :
    /\ \A d \in events[p] : d.of = e.of => d = e
    /\ e.hup => peer[e.of] = "reset"
    /\ inbox[e.of] # <<>> \/ peer[e.of] # "up" \/ (ppc[p] = "answer" /\ Cur(p) = e)

IInv ==
  /\ TypeOK /\ AtWork /\ Registered /\ JustAccepted
  /\ EventsAreOwn /\ EventsTrue /\ KeepAlive

Holds(p, c) == ppc[p] = "answer" /\ Cur(p).of = c

\* A patient peer has its answers and nothing under way, or one chunk is in its
\* inbox, or one chunk is held by the processor that will answer it.
Conversation ==
  \A c \in patient :
    /\ \A i \in 1 .. Len(answers[c]) : answers[c][i] = <<i>>
    /\ \/ /\ Len(answers[c]) = sent[c] /\ inbox[c] = <<>>
          /\ \A p \in Proc : ~Holds(p, c)
       \/ /\ Len(answers[c]) + 1 = sent[c] /\ inbox[c] = <<sent[c]>>
          /\ \A p \in Proc : ~Holds(p, c)
       \/ /\ Len(answers[c]) + 1 = sent[c] /\ inbox[c] = <<>>
          /\ \A p \in Proc : Holds(p, c) => got[p].chunks = <<sent[c]>>

-------------------------------------------------------------------------------
(* Facts about the state *)

LEMMA InitIInv == Init => IInv /\ Conversation
<1> SUFFICES ASSUME Init PROVE IInv /\ Conversation
  OBVIOUS
<1> USE DEF Init
<1>1. 0 \in Proc /\ 0 \in 0 .. MaxSent
  BY DEF Proc
<1>2. <<>> \in Seq(1 .. MaxSent) /\ <<>> \in Seq(Seq(1 .. MaxSent)) /\ Len(<<>>) = 0
  BY EmptySeq
<1>3. TypeOK
  BY <1>1, <1>2 DEF TypeOK, NoFd
<1>4. AtWork /\ Registered /\ JustAccepted /\ EventsAreOwn /\ EventsTrue /\ KeepAlive
  BY DEF AtWork, Registered, JustAccepted, EventsAreOwn, EventsTrue, KeepAlive
<1>5. Conversation
  BY <1>2 DEF Conversation, Holds
<1> QED  BY <1>3, <1>4, <1>5 DEF IInv

\* Closing an open connection's descriptor closes that connection and no other.
LEMMA CloseFacts ==
  ASSUME TypeOK, NEW c \in Conn, fdof[c] # NoFd, Close(fdof[c])
  PROVE  /\ phase' = [phase EXCEPT ![c] = "closed"]
         /\ fdof' = [fdof EXCEPT ![c] = NoFd]
         /\ epset' \in [Proc -> SUBSET Conn]
         /\ \A p \in Proc : epset'[p] = epset[p] \ {c}
<1>1. {d \in Conn : fdof[d] = fdof[c]} = {c}
  BY DEF TypeOK
<1>2. phase \in [Conn -> {"new", "backlog", "open", "closed"}] /\ fdof \in [Conn -> Fd \cup {NoFd}]
      /\ epset \in [Proc -> SUBSET Conn]
  BY DEF TypeOK
<1> QED  BY <1>1, <1>2 DEF Close

\* The event of a processor names a connection that only this processor serves;
\* closing the event's descriptor closes that one.
LEMMA EventFacts ==
  ASSUME IInv, NEW p \in Proc, NEW e \in events[p]
  PROVE  /\ e \in Event /\ e.of \in Conn /\ e.fd \in Fd /\ e.fd # NoFd
         /\ fdof[e.of] = e.fd /\ e.of \in epset[p]
         /\ \A c \in Conn : fdof[c] = e.fd => c = e.of
         /\ \A q \in Proc : q # p => e.of \notin epset[q] /\ \A d \in events[q] : d.of # e.of
         /\ \A d \in events[p] : d # e => d.of # e.of
<1>1. e \in Event /\ e.of \in Conn /\ e.fd \in Fd /\ e.fd # NoFd
  BY DEF IInv, TypeOK, Event, Fd, NoFd
<1>2. fdof[e.of] = e.fd /\ e.of \in epset[p]
  BY DEF IInv, EventsAreOwn
<1>3. \A c \in Conn : fdof[c] = e.fd => c = e.of
  BY <1>1, <1>2 DEF IInv, TypeOK
<1>4. \A q \in Proc : q # p => e.of \notin epset[q]
  BY <1>2 DEF IInv, Registered
<1>5. \A q \in Proc : \A d \in events[q] : d.of \in epset[q]
  BY DEF IInv, EventsAreOwn
<1>6. \A d \in events[p] : d # e => d.of # e.of
  BY DEF IInv, EventsTrue
<1> QED  BY <1>1, <1>2, <1>3, <1>4, <1>5, <1>6

LEMMA CloseEvent ==
  ASSUME IInv, NEW p \in Proc, NEW e \in events[p], Close(e.fd)
  PROVE  /\ phase' = [phase EXCEPT ![e.of] = "closed"]
         /\ fdof' = [fdof EXCEPT ![e.of] = NoFd]
         /\ epset' \in [Proc -> SUBSET Conn]
         /\ \A q \in Proc : epset'[q] = epset[q] \ {e.of}
<1>1. e.of \in Conn /\ fdof[e.of] = e.fd /\ e.fd # NoFd
  BY EventFacts
<1>2. fdof[e.of] # NoFd /\ Close(fdof[e.of])
  BY <1>1
<1>3. TypeOK
  BY DEF IInv
<1> HIDE DEF IInv
<1> QED  BY <1>1, <1>2, <1>3, CloseFacts

-------------------------------------------------------------------------------
(* Each step keeps the invariant *)

LEMMA ConnectIInv ==
  ASSUME IInv, NEW c \in Conn, Connect(c)
  PROVE  IInv'
<1> USE DEF IInv, Connect, main, procs
<1>0. TypeOK'
  BY DEF TypeOK, Cur, Event
<1>1. AtWork'
  BY DEF TypeOK, AtWork, Cur, Event
<1>2. Registered'
  BY DEF TypeOK, Registered, Cur, Event
<1>3. JustAccepted'
  BY DEF TypeOK, JustAccepted, Cur, Event
<1>4. EventsAreOwn'
  BY DEF TypeOK, EventsAreOwn, Cur, Event
<1>5. EventsTrue'
  BY DEF TypeOK, EventsTrue, Cur, Event
<1>6. KeepAlive'
  BY DEF TypeOK, KeepAlive, Cur, Event
<1> QED
  BY <1>0, <1>1, <1>2, <1>3, <1>4, <1>5, <1>6

LEMMA SendIInv ==
  ASSUME IInv, NEW c \in Conn, Send(c)
  PROVE  IInv'
<1> USE DEF IInv, main, procs
<1>a. /\ inbox' \in [Conn -> Chunks] /\ sent' \in [Conn -> 0 .. MaxSent] /\ inbox'[c] # <<>>
      /\ \A d \in Conn : d # c => inbox'[d] = inbox[d]
      /\ patient' \in SUBSET Conn
      /\ UNCHANGED <<phase, peer, answers, fdof, refused, main, procs, alive>>
  <2>1. sent[c] \in 0 .. MaxSent /\ sent[c] + 1 \in 1 .. MaxSent /\ sent[c] + 1 \in 0 .. MaxSent
    BY DEF TypeOK, Send
  <2>2. inbox[c] \in Seq(1 .. MaxSent)
    BY DEF TypeOK, Chunks
  <2>3. Append(inbox[c], sent[c] + 1) \in Chunks /\ Append(inbox[c], sent[c] + 1) # <<>>
    <3> HIDE DEF IInv, main, procs
    <3>1. \A s \in Seq(1 .. MaxSent), x \in 1 .. MaxSent :
            Append(s, x) \in Seq(1 .. MaxSent) /\ Append(s, x) # <<>>
      BY ONLY AppendProperties
    <3>2. /\ Append(inbox[c], sent[c] + 1) \in Seq(1 .. MaxSent)
          /\ Append(inbox[c], sent[c] + 1) # <<>>
      BY <2>1, <2>2, <3>1
    <3> QED  BY <3>2 DEF Chunks
  <2>4. inbox' = [inbox EXCEPT ![c] = Append(@, sent[c] + 1)]
    BY DEF Send
  <2>5. inbox' \in [Conn -> Chunks] /\ inbox'[c] # <<>> /\ \A d \in Conn : d # c => inbox'[d] = inbox[d]
    <3>1. inbox \in [Conn -> Chunks]
      BY DEF TypeOK, Chunks
    <3> QED  BY <2>3, <2>4, <3>1
  <2>6. sent' \in [Conn -> 0 .. MaxSent] /\ patient' \in SUBSET Conn
    BY <2>1 DEF TypeOK, Send
  <2>7. UNCHANGED <<phase, peer, answers, fdof, refused, main, procs, alive>>
    BY DEF Send
  <2> QED  BY <2>5, <2>6, <2>7
<1>0. TypeOK'
  BY <1>a DEF TypeOK, Cur, Event, Chunks
<1>1. AtWork'
  BY <1>a DEF TypeOK, AtWork, Cur, Event, Chunks
<1>2. Registered'
  BY <1>a DEF TypeOK, Registered, Cur, Event, Chunks
<1>3. JustAccepted'
  BY <1>a DEF TypeOK, JustAccepted, Cur, Event, Chunks
<1>4. EventsAreOwn'
  BY <1>a DEF TypeOK, EventsAreOwn, Cur, Event, Chunks
<1>5. EventsTrue'
  BY <1>a DEF TypeOK, EventsTrue, Cur, Event, Chunks
<1>6. KeepAlive'
  BY <1>a DEF TypeOK, KeepAlive, Cur, Event, Chunks
<1> QED
  BY <1>0, <1>1, <1>2, <1>3, <1>4, <1>5, <1>6

LEMMA LeaveIInv ==
  ASSUME IInv, NEW c \in Conn, NEW how \in {"eof", "reset"}, Leave(c, how)
  PROVE  IInv'
<1> USE DEF IInv, Leave, main, procs
<1>0. TypeOK'
  BY DEF TypeOK, Cur, Event
<1>1. AtWork'
  BY DEF TypeOK, AtWork, Cur, Event
<1>2. Registered'
  BY DEF TypeOK, Registered, Cur, Event
<1>3. JustAccepted'
  BY DEF TypeOK, JustAccepted, Cur, Event
<1>4. EventsAreOwn'
  BY DEF TypeOK, EventsAreOwn, Cur, Event
<1>5. EventsTrue'
  BY DEF TypeOK, EventsTrue, Cur, Event
<1>6. KeepAlive'
  BY DEF TypeOK, KeepAlive, Cur, Event
<1> QED
  BY <1>0, <1>1, <1>2, <1>3, <1>4, <1>5, <1>6

LEMMA RunWaitIInv ==
  ASSUME IInv, RunWait
  PROVE  IInv'
<1> USE DEF IInv, RunWait, peers, procs
<1>0. TypeOK'
  BY DEF TypeOK, Cur, Event
<1>1. AtWork'
  BY DEF TypeOK, AtWork, Cur, Event
<1>2. Registered'
  BY DEF TypeOK, Registered, Cur, Event
<1>3. JustAccepted'
  BY DEF TypeOK, JustAccepted, Cur, Event
<1>4. EventsAreOwn'
  BY DEF TypeOK, EventsAreOwn, Cur, Event
<1>5. EventsTrue'
  BY DEF TypeOK, EventsTrue, Cur, Event
<1>6. KeepAlive'
  BY DEF TypeOK, KeepAlive, Cur, Event
<1> QED
  BY <1>0, <1>1, <1>2, <1>3, <1>4, <1>5, <1>6

LEMMA RunThrowsIInv ==
  ASSUME IInv, RunThrows
  PROVE  IInv'
<1> USE DEF IInv, RunThrows, peers, procs
<1>a. 0 \in Proc
  BY DEF Proc
<1>0. TypeOK'
  BY <1>a DEF TypeOK, Cur, Event
<1>1. AtWork'
  BY <1>a DEF TypeOK, AtWork, Cur, Event
<1>2. Registered'
  BY <1>a DEF TypeOK, Registered, Cur, Event
<1>3. JustAccepted'
  BY <1>a DEF TypeOK, JustAccepted, Cur, Event
<1>4. EventsAreOwn'
  BY <1>a DEF TypeOK, EventsAreOwn, Cur, Event
<1>5. EventsTrue'
  BY <1>a DEF TypeOK, EventsTrue, Cur, Event
<1>6. KeepAlive'
  BY <1>a DEF TypeOK, KeepAlive, Cur, Event
<1> QED
  BY <1>0, <1>1, <1>2, <1>3, <1>4, <1>5, <1>6

LEMMA AcceptIInv ==
  ASSUME IInv, Accept
  PROVE  IInv'
<1>1. CASE apc' = "wait" /\ UNCHANGED <<phase, fdof, counter, taken>>
  BY <1>1 DEF Accept, procs, IInv, TypeOK, AtWork, Registered, JustAccepted, EventsAreOwn,
     EventsTrue, KeepAlive, Cur, Event
<1>2. ASSUME NEW c \in Conn, NEW fd \in FreeFd, Accepted(c, fd), counter' = (counter + 1) % N
      PROVE  IInv'
  <2>1. fd \in Fd /\ fd # NoFd /\ \A d \in Conn : fdof[d] # fd
    BY DEF FreeFd, Fd, NoFd
  <2>2. phase[c] = "backlog" /\ fdof[c] = NoFd
    BY <1>2 DEF Accepted, Backlog, IInv, TypeOK
  <2>3. counter' \in Proc
    BY <1>2 DEF IInv, TypeOK, Proc
  <2>4. /\ phase' = [phase EXCEPT ![c] = "open"]
        /\ fdof' = [fdof EXCEPT ![c] = fd]
        /\ taken' = fd
        /\ apc' = "give"
        /\ UNCHANGED <<peer, inbox, sent, answers, patient, refused, stop, epoll, epset, ppc,
             events, got, alive>>
    BY <1>2 DEF Accepted, Accept, procs
  <2>5. \A p \in Proc : c \notin epset[p]
    BY <2>2 DEF IInv, Registered
  <2>6. TypeOK'
    <3>1. \A d \in Conn : phase'[d] = "open" <=> fdof'[d] # NoFd
      BY <2>1, <2>2, <2>4 DEF IInv, TypeOK
    <3>2. \A d, f \in Conn : fdof'[d] = fdof'[f] /\ fdof'[d] # NoFd => d = f
      BY <2>1, <2>2, <2>4 DEF IInv, TypeOK
    <3> QED  BY <2>1, <2>3, <2>4, <3>1, <3>2 DEF IInv, TypeOK
  <2>7. AtWork' /\ EventsTrue'
    BY <2>4 DEF IInv, AtWork, EventsTrue, Cur
  <2>8. Registered' /\ JustAccepted'
    BY <2>1, <2>2, <2>4, <2>5 DEF IInv, TypeOK, Registered, JustAccepted
  <2>9. EventsAreOwn'
    BY <2>4, <2>5 DEF IInv, TypeOK, EventsAreOwn, Event
  <2>10. KeepAlive'
    BY <2>4 DEF IInv, TypeOK, KeepAlive
  <2> QED  BY <2>6, <2>7, <2>8, <2>9, <2>10 DEF IInv
<1> QED
  BY <1>1, <1>2 DEF Accept

LEMMA GiveIInv ==
  ASSUME IInv, Give
  PROVE  IInv'
<1>1. taken # NoFd /\ apc = "give"
  BY DEF IInv, JustAccepted, Give
<1>2. PICK c \in Conn : fdof[c] = taken /\ \A p \in Proc : c \notin epset[p]
  BY DEF IInv, JustAccepted, Give
<1>3. c = CHOOSE x \in Conn : fdof[x] = taken
  BY <1>1, <1>2 DEF IInv, TypeOK
<1>4. UNCHANGED <<peer, inbox, sent, answers, patient, counter, stop, epoll, ppc, events, got, alive>>
      /\ apc' = "accept" /\ taken' = NoFd
  BY DEF Give
<1>5. counter \in Proc
  BY DEF IInv, TypeOK
<1>6. CASE /\ epset' = [epset EXCEPT ![counter] = @ \cup {c}]
           /\ UNCHANGED <<phase, fdof, refused>>
  <2>1. \A p \in Proc : epset'[p] = IF p = counter THEN epset[p] \cup {c} ELSE epset[p]
    BY <1>5, <1>6 DEF IInv, TypeOK
  <2>2. TypeOK'
    BY <1>4, <1>5, <1>6 DEF IInv, TypeOK
  <2>3. Registered'
    BY <1>1, <1>2, <1>6, <2>1 DEF IInv, Registered
  <2>4. EventsAreOwn'
    BY <1>4, <1>6, <2>1 DEF IInv, EventsAreOwn
  <2> QED  BY <1>4, <1>6, <2>2, <2>3, <2>4 DEF IInv, AtWork, JustAccepted, EventsTrue, KeepAlive, Cur
<1>7. CASE Close(taken) /\ refused' = refused \cup {c}
  <2>1. /\ phase' = [phase EXCEPT ![c] = "closed"]
        /\ fdof' = [fdof EXCEPT ![c] = NoFd]
        /\ epset' \in [Proc -> SUBSET Conn]
        /\ \A p \in Proc : epset'[p] = epset[p] \ {c}
    <3>1. fdof[c] # NoFd /\ Close(fdof[c]) /\ TypeOK
      BY <1>1, <1>2, <1>7 DEF IInv
    <3> QED  BY <3>1, CloseFacts
  <2>2. \A p \in Proc : epset'[p] = epset[p]
    BY <1>2, <2>1
  <2>3. TypeOK'
    BY <1>4, <1>7, <2>1 DEF IInv, TypeOK
  <2>4. Registered' /\ EventsAreOwn'
    BY <1>2, <1>4, <2>1, <2>2 DEF IInv, TypeOK, Registered, EventsAreOwn, Event
  <2>5. KeepAlive'
    BY <1>4, <1>7, <2>1 DEF IInv, TypeOK, KeepAlive
  <2> QED  BY <1>4, <2>3, <2>4, <2>5 DEF IInv, AtWork, JustAccepted, EventsTrue, Cur
<1> QED
  BY <1>3, <1>6, <1>7 DEF Give

LEMMA DestroyStopIInv ==
  ASSUME IInv, DestroyStop
  PROVE  IInv'
<1> USE DEF IInv, DestroyStop, peers, procs
<1>0. TypeOK'
  BY DEF TypeOK, Cur, Event
<1>1. AtWork'
  BY DEF TypeOK, AtWork, Cur, Event
<1>2. Registered'
  BY DEF TypeOK, Registered, Cur, Event
<1>3. JustAccepted'
  BY DEF TypeOK, JustAccepted, Cur, Event
<1>4. EventsAreOwn'
  BY DEF TypeOK, EventsAreOwn, Cur, Event
<1>5. EventsTrue'
  BY DEF TypeOK, EventsTrue, Cur, Event
<1>6. KeepAlive'
  BY DEF TypeOK, KeepAlive, Cur, Event
<1> QED
  BY <1>0, <1>1, <1>2, <1>3, <1>4, <1>5, <1>6

LEMMA DestroyJoinIInv ==
  ASSUME IInv, DestroyJoin
  PROVE  IInv'
<1> USE DEF IInv, DestroyJoin, peers, procs
<1>a. counter \in Proc /\ (counter # N - 1 => counter + 1 \in Proc)
  BY DEF TypeOK, Proc
<1>0. TypeOK'
  BY <1>a DEF TypeOK, Cur, Event
<1>1. AtWork'
  BY <1>a DEF TypeOK, AtWork, Cur, Event
<1>2. Registered'
  BY <1>a DEF TypeOK, Registered, Cur, Event
<1>3. JustAccepted'
  BY <1>a DEF TypeOK, JustAccepted, Cur, Event
<1>4. EventsAreOwn'
  BY <1>a DEF TypeOK, EventsAreOwn, Cur, Event
<1>5. EventsTrue'
  BY <1>a DEF TypeOK, EventsTrue, Cur, Event
<1>6. KeepAlive'
  BY <1>a DEF TypeOK, KeepAlive, Cur, Event
<1> QED
  BY <1>0, <1>1, <1>2, <1>3, <1>4, <1>5, <1>6

LEMMA CreateIInv ==
  ASSUME IInv, NEW p \in Proc, Create(p)
  PROVE  IInv'
<1> USE DEF IInv, Create, Goto, peers, main
<1>0. TypeOK'
  BY DEF TypeOK, Cur, Event
<1>1. AtWork'
  BY DEF TypeOK, AtWork, Cur, Event
<1>2. Registered'
  BY DEF TypeOK, Registered, Cur, Event
<1>3. JustAccepted'
  BY DEF TypeOK, JustAccepted, Cur, Event
<1>4. EventsAreOwn'
  BY DEF TypeOK, EventsAreOwn, Cur, Event
<1>5. EventsTrue'
  BY DEF TypeOK, EventsTrue, Cur, Event
<1>6. KeepAlive'
  BY DEF TypeOK, KeepAlive, Cur, Event
<1> QED
  BY <1>0, <1>1, <1>2, <1>3, <1>4, <1>5, <1>6

LEMMA LoopIInv ==
  ASSUME IInv, NEW p \in Proc, Loop(p)
  PROVE  IInv'
<1> USE DEF IInv, Loop, Goto, peers, main
<1>0. TypeOK'
  BY DEF TypeOK, Cur, Event
<1>1. AtWork'
  BY DEF TypeOK, AtWork, Cur, Event
<1>2. Registered'
  BY DEF TypeOK, Registered, Cur, Event
<1>3. JustAccepted'
  BY DEF TypeOK, JustAccepted, Cur, Event
<1>4. EventsAreOwn'
  BY DEF TypeOK, EventsAreOwn, Cur, Event
<1>5. EventsTrue'
  BY DEF TypeOK, EventsTrue, Cur, Event
<1>6. KeepAlive'
  BY DEF TypeOK, KeepAlive, Cur, Event
<1> QED
  BY <1>0, <1>1, <1>2, <1>3, <1>4, <1>5, <1>6

LEMMA WaitIInv ==
  ASSUME IInv, NEW p \in Proc, Wait(p)
  PROVE  IInv'
<1>a. /\ ppc[p] = "wait"
      /\ ppc' = [ppc EXCEPT ![p] = "event"]
      /\ events' = [events EXCEPT ![p] = {[fd |-> fdof[c], of |-> c, hup |-> peer[c] = "reset"] : c \in Ready(p)}]
      /\ UNCHANGED <<peers, main, epoll, epset, got, alive>>
  BY DEF Wait, Goto
<1>b. \A c \in Ready(p) :
        /\ c \in Conn /\ c \in epset[p] /\ fdof[c] \in Fd
        /\ inbox[c] # <<>> \/ peer[c] # "up"
  BY DEF Ready, IInv, TypeOK, Registered
<1>c. \A c \in Ready(p) : [fd |-> fdof[c], of |-> c, hup |-> peer[c] = "reset"] \in Event
  BY <1>b DEF Event
<1>d. \A e \in events'[p] : \E c \in Ready(p) : e = [fd |-> fdof[c], of |-> c, hup |-> peer[c] = "reset"]
  BY <1>a DEF IInv, TypeOK
<1>e. \A e \in events'[p] :
        /\ e \in Event /\ e.of \in Ready(p) /\ e.fd = fdof[e.of] /\ (e.hup => peer[e.of] = "reset")
        /\ \A d \in events'[p] : d.of = e.of => d = e
  <2> SUFFICES ASSUME NEW e \in events'[p], NEW d \in events'[p]
               PROVE  /\ e \in Event /\ e.of \in Ready(p) /\ e.fd = fdof[e.of] /\ (e.hup => peer[e.of] = "reset")
                      /\ d.of = e.of => d = e
    OBVIOUS
  <2>1. PICK c \in Ready(p) : e = [fd |-> fdof[c], of |-> c, hup |-> peer[c] = "reset"]
    BY <1>d
  <2>2. PICK b \in Ready(p) : d = [fd |-> fdof[b], of |-> b, hup |-> peer[b] = "reset"]
    BY <1>d
  <2>3. e.of = c /\ e.fd = fdof[c] /\ (e.hup = (peer[c] = "reset")) /\ e \in Event
    BY <1>c, <2>1
  <2>4. d.of = b
    BY <2>2
  <2>5. d.of = e.of => d = e
    BY <2>1, <2>2, <2>3, <2>4
  <2> QED  BY <2>3, <2>5
<1>f. \A q \in Proc : q # p => events'[q] = events[q] /\ ppc'[q] = ppc[q]
  BY <1>a DEF IInv, TypeOK
<1>g. events' \in [Proc -> SUBSET Event] /\ ppc'[p] = "event"
  BY <1>a, <1>c DEF IInv, TypeOK
<1>0. TypeOK'
  BY <1>a, <1>e, <1>f, <1>g DEF IInv, TypeOK, peers, main
<1>1. AtWork'
  BY <1>a, <1>e, <1>f, <1>g DEF IInv, AtWork, Cur, peers, main
<1>2. Registered' /\ JustAccepted' /\ KeepAlive'
  BY <1>a, <1>e, <1>f, <1>g DEF IInv, Registered, JustAccepted, KeepAlive, peers, main
<1>3. EventsAreOwn'
  BY <1>a, <1>e, <1>f, <1>g, <1>b DEF IInv, EventsAreOwn, peers, main
<1>4. EventsTrue'
  BY <1>a, <1>e, <1>f, <1>g, <1>b DEF IInv, EventsTrue, Cur, peers, main
<1> QED
  BY <1>0, <1>1, <1>2, <1>3, <1>4 DEF IInv

LEMMA WaitFailsIInv ==
  ASSUME IInv, NEW p \in Proc, WaitFails(p)
  PROVE  IInv'
<1> USE DEF IInv, WaitFails, Goto, peers, main
<1>0. TypeOK'
  BY DEF TypeOK, Cur, Event
<1>1. AtWork'
  BY DEF TypeOK, AtWork, Cur, Event
<1>2. Registered'
  BY DEF TypeOK, Registered, Cur, Event
<1>3. JustAccepted'
  BY DEF TypeOK, JustAccepted, Cur, Event
<1>4. EventsAreOwn'
  BY DEF TypeOK, EventsAreOwn, Cur, Event
<1>5. EventsTrue'
  BY DEF TypeOK, EventsTrue, Cur, Event
<1>6. KeepAlive'
  BY DEF TypeOK, KeepAlive, Cur, Event
<1> QED
  BY <1>0, <1>1, <1>2, <1>3, <1>4, <1>5, <1>6

LEMMA EndOfEventsIInv ==
  ASSUME IInv, NEW p \in Proc, EndOfEvents(p)
  PROVE  IInv'
<1> USE DEF IInv, EndOfEvents, Goto, peers, main
<1>0. TypeOK'
  BY DEF TypeOK, Cur, Event
<1>1. AtWork'
  BY DEF TypeOK, AtWork, Cur, Event
<1>2. Registered'
  BY DEF TypeOK, Registered, Cur, Event
<1>3. JustAccepted'
  BY DEF TypeOK, JustAccepted, Cur, Event
<1>4. EventsAreOwn'
  BY DEF TypeOK, EventsAreOwn, Cur, Event
<1>5. EventsTrue'
  BY DEF TypeOK, EventsTrue, Cur, Event
<1>6. KeepAlive'
  BY DEF TypeOK, KeepAlive, Cur, Event
<1> QED
  BY <1>0, <1>1, <1>2, <1>3, <1>4, <1>5, <1>6

LEMMA HangUpIInv ==
  ASSUME IInv, NEW p \in Proc, NEW e \in events[p], HangUp(p, e)
  PROVE  IInv'
<1>a. /\ phase' = [phase EXCEPT ![e.of] = "closed"]
      /\ fdof' = [fdof EXCEPT ![e.of] = NoFd]
      /\ epset' \in [Proc -> SUBSET Conn]
      /\ \A q \in Proc : epset'[q] = epset[q] \ {e.of}
  BY CloseEvent DEF HangUp
<1>b. /\ e \in Event /\ e.of \in Conn /\ e.fd \in Fd /\ e.fd # NoFd
      /\ fdof[e.of] = e.fd /\ e.of \in epset[p]
      /\ \A c \in Conn : fdof[c] = e.fd => c = e.of
      /\ \A q \in Proc : q # p => e.of \notin epset[q] /\ \A d \in events[q] : d.of # e.of
      /\ \A d \in events[p] : d # e => d.of # e.of
  BY EventFacts
<1>c. peer[e.of] # "up"
  BY DEF IInv, EventsTrue, HangUp
<1>d. /\ events' = [events EXCEPT ![p] = @ \ {e}]
      /\ ppc' = ppc
      /\ got' = got
      /\ ppc[p] = "event"
      /\ UNCHANGED <<peer, inbox, sent, answers, patient, refused, main, epoll, alive>>
  BY DEF HangUp
<1>e. \A q \in Proc : events'[q] = IF q = p THEN events[q] \ {e} ELSE events[q]
  BY <1>d DEF IInv, TypeOK
<1>f. \A q \in Proc : q # p => ppc'[q] = ppc[q] /\ got'[q] = got[q]
  BY <1>d DEF IInv, TypeOK
<1>g. ppc'[p] = "event"
  BY <1>d DEF IInv, TypeOK
<1>0. TypeOK'
  <2>1. \A d \in Conn : phase'[d] = "open" <=> fdof'[d] # NoFd
    BY <1>a, <1>b DEF IInv, TypeOK
  <2>2. \A d, f \in Conn : fdof'[d] = fdof'[f] /\ fdof'[d] # NoFd => d = f
    BY <1>a, <1>b DEF IInv, TypeOK
  <2>3. events' \in [Proc -> SUBSET Event]
    BY <1>d DEF IInv, TypeOK
  <2> QED  BY <1>a, <1>b, <1>d, <2>1, <2>2, <2>3 DEF IInv, TypeOK, main
<1>1. AtWork'
  <2>1. \A q \in Proc : ppc'[q] \in {"read", "answer"} => q # p /\ ppc[q] \in {"read", "answer"}
    BY <1>f, <1>g
  <2> QED  BY <1>e, <1>f, <2>1 DEF IInv, AtWork, Cur
<1>2. Registered'
  BY <1>a, <1>b DEF IInv, TypeOK, Registered
<1>3. JustAccepted'
  <2> SUFFICES ASSUME apc = "give"
               PROVE  taken # NoFd /\ \E c \in Conn : fdof'[c] = taken /\ \A q \in Proc : c \notin epset'[q]
    BY <1>d DEF JustAccepted, main
  <2>1. PICK c \in Conn : fdof[c] = taken /\ \A q \in Proc : c \notin epset[q]
    BY DEF IInv, JustAccepted
  <2>2. c # e.of /\ taken # NoFd
    BY <1>b, <2>1 DEF IInv, JustAccepted
  <2>3. fdof'[c] = taken /\ \A q \in Proc : c \notin epset'[q]
    BY <1>a, <2>1, <2>2 DEF IInv, TypeOK
  <2> QED  BY <2>2, <2>3
<1>4. EventsAreOwn'
  <2> SUFFICES ASSUME NEW q \in Proc, NEW d \in events'[q]
               PROVE  fdof'[d.of] = d.fd /\ d.of \in epset'[q]
    BY DEF EventsAreOwn
  <2>1. d \in events[q] /\ d.of # e.of /\ d.of \in Conn
    <3>1. d \in events[q] /\ (q = p => d # e)
      BY <1>e
    <3>2. d \in Event
      BY <3>1 DEF IInv, TypeOK
    <3> QED  BY <1>b, <3>1, <3>2 DEF Event
  <2>2. fdof[d.of] = d.fd /\ d.of \in epset[q]
    BY <2>1 DEF IInv, EventsAreOwn
  <2> QED  BY <1>a, <2>1, <2>2 DEF IInv, TypeOK
<1>5. EventsTrue'
  <2> SUFFICES ASSUME NEW q \in Proc, NEW d \in events'[q]
               PROVE  /\ \A x \in events'[q] : x.of = d.of => x = d
                      /\ d.hup => peer'[d.of] = "reset"
                      /\ inbox'[d.of] # <<>> \/ peer'[d.of] # "up" \/ (ppc'[q] = "answer" /\ Cur(q)' = d)
    BY DEF EventsTrue
  <2>1. d \in events[q] /\ events'[q] \subseteq events[q]
    BY <1>e
  <2>2. /\ \A x \in events[q] : x.of = d.of => x = d
        /\ d.hup => peer[d.of] = "reset"
        /\ inbox[d.of] # <<>> \/ peer[d.of] # "up" \/ (ppc[q] = "answer" /\ Cur(q) = d)
    BY <2>1 DEF IInv, EventsTrue
  <2>3. ppc[q] = "answer" => q # p
    BY <1>d
  <2> QED  BY <1>d, <1>f, <2>1, <2>2, <2>3 DEF Cur
<1>6. KeepAlive'
  BY <1>a, <1>b, <1>c, <1>d DEF IInv, TypeOK, KeepAlive
<1> QED
  BY <1>0, <1>1, <1>2, <1>3, <1>4, <1>5, <1>6 DEF IInv

LEMMA PickEventIInv ==
  ASSUME IInv, NEW p \in Proc, NEW e \in events[p], PickEvent(p, e)
  PROVE  IInv'
<1>a. /\ ppc[p] = "event" /\ ~e.hup
      /\ ppc' = [ppc EXCEPT ![p] = "read"]
      /\ got' = [got EXCEPT ![p] = [event |-> e, chunks |-> <<>>]]
      /\ UNCHANGED <<peers, main, epoll, epset, events, alive>>
  BY DEF PickEvent, Goto
<1>b. e \in Event /\ <<>> \in Chunks
  BY EventFacts DEF Chunks
<1>c. /\ \A q \in Proc : q # p => ppc'[q] = ppc[q] /\ got'[q] = got[q]
      /\ ppc'[p] = "read" /\ got'[p] = [event |-> e, chunks |-> <<>>]
  BY <1>a DEF IInv, TypeOK
<1>d. [event |-> e, chunks |-> <<>>] \in [event : Event, chunks : Chunks]
  BY <1>b
<1>0. TypeOK'
  BY <1>a, <1>d DEF IInv, TypeOK, Chunks, peers, main
<1>1. AtWork'
  BY <1>a, <1>c, <1>d DEF IInv, AtWork, Cur
<1>2. Registered' /\ JustAccepted' /\ EventsAreOwn' /\ KeepAlive'
  BY <1>a DEF IInv, Registered, JustAccepted, EventsAreOwn, KeepAlive, peers, main
<1>3. EventsTrue'
  BY <1>a, <1>c DEF IInv, EventsTrue, Cur, peers
<1> QED
  BY <1>0, <1>1, <1>2, <1>3 DEF IInv

LEMMA ReadFailsIInv ==
  ASSUME IInv, NEW p \in Proc, ReadFails(p)
  PROVE  IInv'
<1> DEFINE e == Cur(p)
<1>z. e \in events[p] /\ ppc[p] = "read"
  BY DEF IInv, AtWork, ReadFails, Goto
<1>y. Close(e.fd) /\ \A c \in Conn : fdof[c] = e.fd => inbox[c] = <<>> /\ peer[c] # "up"
  BY DEF ReadFails
<1>x. events' = [events EXCEPT ![p] = @ \ {e}]
  BY DEF ReadFails, Done
<1> HIDE DEF e
<1>a. /\ phase' = [phase EXCEPT ![e.of] = "closed"]
      /\ fdof' = [fdof EXCEPT ![e.of] = NoFd]
      /\ epset' \in [Proc -> SUBSET Conn]
      /\ \A q \in Proc : epset'[q] = epset[q] \ {e.of}
  BY <1>y, <1>z, CloseEvent
<1>b. /\ e \in Event /\ e.of \in Conn /\ e.fd \in Fd /\ e.fd # NoFd
      /\ fdof[e.of] = e.fd /\ e.of \in epset[p]
      /\ \A c \in Conn : fdof[c] = e.fd => c = e.of
      /\ \A q \in Proc : q # p => e.of \notin epset[q] /\ \A d \in events[q] : d.of # e.of
      /\ \A d \in events[p] : d # e => d.of # e.of
  BY <1>y, <1>z, EventFacts
<1>c. peer[e.of] # "up"
  BY <1>b, <1>y
<1>d. /\ events' = [events EXCEPT ![p] = @ \ {e}]
      /\ ppc' = [ppc EXCEPT ![p] = "event"]
      /\ got' = [got EXCEPT ![p] = <<>>]
      /\ ppc[p] = "read"
      /\ UNCHANGED <<peer, inbox, sent, answers, patient, refused, main, epoll, alive>>
  BY <1>x DEF ReadFails, Done, Goto
<1>e. \A q \in Proc : events'[q] = IF q = p THEN events[q] \ {e} ELSE events[q]
  BY <1>d DEF IInv, TypeOK
<1>f. \A q \in Proc : q # p => ppc'[q] = ppc[q] /\ got'[q] = got[q]
  BY <1>d DEF IInv, TypeOK
<1>g. ppc'[p] = "event"
  BY <1>d DEF IInv, TypeOK
<1>0. TypeOK'
  <2>1. \A d \in Conn : phase'[d] = "open" <=> fdof'[d] # NoFd
    BY <1>a, <1>b DEF IInv, TypeOK
  <2>2. \A d, f \in Conn : fdof'[d] = fdof'[f] /\ fdof'[d] # NoFd => d = f
    BY <1>a, <1>b DEF IInv, TypeOK
  <2>3. events' \in [Proc -> SUBSET Event]
    BY <1>d DEF IInv, TypeOK
  <2> QED  BY <1>a, <1>b, <1>d, <2>1, <2>2, <2>3 DEF IInv, TypeOK, main
<1>1. AtWork'
  <2>1. \A q \in Proc : ppc'[q] \in {"read", "answer"} => q # p /\ ppc[q] \in {"read", "answer"}
    BY <1>f, <1>g
  <2> QED  BY <1>e, <1>f, <2>1 DEF IInv, AtWork, Cur
<1>2. Registered'
  BY <1>a, <1>b DEF IInv, TypeOK, Registered
<1>3. JustAccepted'
  <2> SUFFICES ASSUME apc = "give"
               PROVE  taken # NoFd /\ \E c \in Conn : fdof'[c] = taken /\ \A q \in Proc : c \notin epset'[q]
    BY <1>d DEF JustAccepted, main
  <2>1. PICK c \in Conn : fdof[c] = taken /\ \A q \in Proc : c \notin epset[q]
    BY DEF IInv, JustAccepted
  <2>2. c # e.of /\ taken # NoFd
    BY <1>b, <2>1 DEF IInv, JustAccepted
  <2>3. fdof'[c] = taken /\ \A q \in Proc : c \notin epset'[q]
    BY <1>a, <2>1, <2>2 DEF IInv, TypeOK
  <2> QED  BY <2>2, <2>3
<1>4. EventsAreOwn'
  <2> SUFFICES ASSUME NEW q \in Proc, NEW d \in events'[q]
               PROVE  fdof'[d.of] = d.fd /\ d.of \in epset'[q]
    BY DEF EventsAreOwn
  <2>1. d \in events[q] /\ d.of # e.of /\ d.of \in Conn
    <3>1. d \in events[q] /\ (q = p => d # e)
      BY <1>e
    <3>2. d \in Event
      BY <3>1 DEF IInv, TypeOK
    <3> QED  BY <1>b, <3>1, <3>2 DEF Event
  <2>2. fdof[d.of] = d.fd /\ d.of \in epset[q]
    BY <2>1 DEF IInv, EventsAreOwn
  <2> QED  BY <1>a, <2>1, <2>2 DEF IInv, TypeOK
<1>5. EventsTrue'
  <2> SUFFICES ASSUME NEW q \in Proc, NEW d \in events'[q]
               PROVE  /\ \A x \in events'[q] : x.of = d.of => x = d
                      /\ d.hup => peer'[d.of] = "reset"
                      /\ inbox'[d.of] # <<>> \/ peer'[d.of] # "up" \/ (ppc'[q] = "answer" /\ Cur(q)' = d)
    BY DEF EventsTrue
  <2>1. d \in events[q] /\ events'[q] \subseteq events[q]
    BY <1>e
  <2>2. /\ \A x \in events[q] : x.of = d.of => x = d
        /\ d.hup => peer[d.of] = "reset"
        /\ inbox[d.of] # <<>> \/ peer[d.of] # "up" \/ (ppc[q] = "answer" /\ Cur(q) = d)
    BY <2>1 DEF IInv, EventsTrue
  <2>3. ppc[q] = "answer" => q # p
    BY <1>d
  <2> QED  BY <1>d, <1>f, <2>1, <2>2, <2>3 DEF Cur
<1>6. KeepAlive'
  BY <1>a, <1>b, <1>c, <1>d DEF IInv, TypeOK, KeepAlive
<1> QED
  BY <1>0, <1>1, <1>2, <1>3, <1>4, <1>5, <1>6 DEF IInv

LEMMA ReadIInv ==
  ASSUME IInv, NEW p \in Proc, Read(p)
  PROVE  IInv'
<1>z. /\ ppc[p] = "read" /\ Cur(p) \in events[p] /\ ~Cur(p).hup
      /\ got[p] \in [event : Event, chunks : Chunks]
  BY DEF IInv, AtWork, Read, Goto
<1>y. PICK c \in Conn : \E n \in 1 .. Len(inbox[c]) :
       /\ fdof[c] = Cur(p).fd
       /\ got' = [got EXCEPT ![p].chunks = SubSeq(inbox[c], 1, n)]
       /\ inbox' = [inbox EXCEPT ![c] = SubSeq(@, n + 1, Len(@))]
  BY DEF Read
<1>x. c = Cur(p).of /\ \A q \in Proc : \A d \in events[q] : d.of = c => q = p /\ d = Cur(p)
  BY <1>y, <1>z, EventFacts
<1>w. PICK n \in 1 .. Len(inbox[c]) :
       /\ got' = [got EXCEPT ![p].chunks = SubSeq(inbox[c], 1, n)]
       /\ inbox' = [inbox EXCEPT ![c] = SubSeq(inbox[c], n + 1, Len(inbox[c]))]
  BY <1>y
<1>v. SubSeq(inbox[c], 1, n) \in Chunks /\ SubSeq(inbox[c], n + 1, Len(inbox[c])) \in Chunks
  <2>1. inbox[c] \in Chunks /\ Len(inbox[c]) \in Nat
    BY DEF IInv, TypeOK, Chunks
  <2>2. \A i \in 1 .. Len(inbox[c]) : inbox[c][i] \in 1 .. MaxSent
    BY <2>1 DEF Chunks
  <2>3. n \in Nat /\ n \in 1 .. Len(inbox[c])
    BY <2>1
  <2> QED  BY <2>1, <2>2, <2>3, SubSeqProperties DEF Chunks
<1>a. /\ ppc' = [ppc EXCEPT ![p] = "answer"]
      /\ UNCHANGED <<phase, peer, sent, answers, patient, fdof, refused, main, epoll, epset, events, alive>>
  BY DEF Read, Goto
<1>c. /\ \A q \in Proc : q # p => ppc'[q] = ppc[q] /\ got'[q] = got[q]
      /\ ppc'[p] = "answer" /\ got'[p].event = got[p].event
      /\ got'[p] \in [event : Event, chunks : Chunks]
      /\ \A d \in Conn : d # c => inbox'[d] = inbox[d]
      /\ inbox' \in [Conn -> Chunks]
  <2>1. got' = [got EXCEPT ![p] = [got[p] EXCEPT !.chunks = SubSeq(inbox[c], 1, n)]]
    BY <1>w
  <2>2. [got[p] EXCEPT !.chunks = SubSeq(inbox[c], 1, n)] \in [event : Event, chunks : Chunks]
    BY <1>v, <1>z
  <2>3. [got[p] EXCEPT !.chunks = SubSeq(inbox[c], 1, n)].event = got[p].event
    BY <1>z
  <2>4. got'[p] = [got[p] EXCEPT !.chunks = SubSeq(inbox[c], 1, n)] /\ \A q \in Proc : q # p => got'[q] = got[q]
    BY <2>1 DEF IInv, TypeOK
  <2>5. inbox' \in [Conn -> Chunks] /\ \A d \in Conn : d # c => inbox'[d] = inbox[d]
    BY <1>v, <1>w DEF IInv, TypeOK, Chunks
  <2> QED  BY <1>a, <2>2, <2>3, <2>4, <2>5 DEF IInv, TypeOK
<1>0. TypeOK'
  <2>1. got' \in [Proc -> {<<>>} \cup [event : Event, chunks : Chunks]]
    <3>1. got \in [Proc -> {<<>>} \cup [event : Event, chunks : Chunks]]
      <4>1. TypeOK
        BY DEF IInv
      <4> QED  BY <4>1, Zenon DEF TypeOK, Chunks
    <3> QED  BY <1>w, <1>c, <3>1
  <2> QED  BY <1>a, <1>c, <2>1 DEF IInv, TypeOK, Chunks, main
<1>1. AtWork'
  BY <1>a, <1>c, <1>z DEF IInv, AtWork, Cur
<1>2. Registered' /\ JustAccepted' /\ EventsAreOwn' /\ KeepAlive'
  BY <1>a DEF IInv, Registered, JustAccepted, EventsAreOwn, KeepAlive, main
<1>3. EventsTrue'
  <2> SUFFICES ASSUME NEW q \in Proc, NEW d \in events[q]
               PROVE  /\ \A x \in events[q] : x.of = d.of => x = d
                      /\ d.hup => peer[d.of] = "reset"
                      /\ inbox'[d.of] # <<>> \/ peer[d.of] # "up" \/ (ppc'[q] = "answer" /\ Cur(q)' = d)
    BY <1>a DEF EventsTrue
  <2>1. /\ \A x \in events[q] : x.of = d.of => x = d
        /\ d.hup => peer[d.of] = "reset"
        /\ inbox[d.of] # <<>> \/ peer[d.of] # "up" \/ (ppc[q] = "answer" /\ Cur(q) = d)
    BY DEF IInv, EventsTrue
  <2>2. d.of \in Conn
    BY DEF IInv, TypeOK, Event
  <2>3. CASE d.of = c
    BY <1>c, <1>x, <2>1, <2>3 DEF Cur
  <2>4. CASE d.of # c
    <3>1. inbox'[d.of] = inbox[d.of]
      BY <1>c, <2>2, <2>4
    <3>2. ppc[q] = "answer" => q # p
      BY <1>z
    <3> QED  BY <1>c, <2>1, <3>1, <3>2 DEF Cur
  <2> QED  BY <2>3, <2>4
<1> QED
  BY <1>0, <1>1, <1>2, <1>3 DEF IInv

LEMMA AnswerIInv ==
  ASSUME IInv, NEW p \in Proc, Answer(p)
  PROVE  IInv'
<1>z. Cur(p) \in events[p] /\ ppc[p] = "answer" /\ got[p].chunks \in Chunks
  BY DEF IInv, AtWork, Answer, Goto
<1>a. /\ ppc' = [ppc EXCEPT ![p] = "event"]
      /\ events' = [events EXCEPT ![p] = @ \ {Cur(p)}]
      /\ got' = [got EXCEPT ![p] = <<>>]
      /\ UNCHANGED <<phase, peer, inbox, sent, patient, fdof, refused, main, epoll, epset>>
      /\ alive' \in BOOLEAN
  BY DEF Answer, Done, Goto
<1>b. answers' \in [Conn -> Seq(Chunks)]
  <2>1. \A c \in Conn : answers[c] \in Seq(Chunks)
    BY DEF IInv, TypeOK, Chunks
  <2>2. \A c \in Conn : Append(answers[c], got[p].chunks) \in Seq(Chunks)
    BY <1>z, <2>1, AppendProperties
  <2> QED  BY <2>1, <2>2 DEF Answer
<1>c. /\ \A q \in Proc : q # p => ppc'[q] = ppc[q] /\ got'[q] = got[q] /\ events'[q] = events[q]
      /\ ppc'[p] = "event" /\ events'[p] = events[p] \ {Cur(p)}
      /\ events' \in [Proc -> SUBSET Event]
  BY <1>a DEF IInv, TypeOK
<1>0. TypeOK'
  BY <1>a, <1>b, <1>c DEF IInv, TypeOK, Chunks, main
<1>1. AtWork'
  BY <1>c DEF IInv, AtWork, Cur
<1>2. Registered' /\ JustAccepted' /\ KeepAlive'
  BY <1>a DEF IInv, Registered, JustAccepted, KeepAlive, main
<1>3. EventsAreOwn'
  BY <1>a, <1>c DEF IInv, EventsAreOwn
<1>4. EventsTrue'
  BY <1>a, <1>c, <1>z DEF IInv, EventsTrue, Cur
<1> QED
  BY <1>0, <1>1, <1>2, <1>3, <1>4 DEF IInv

LEMMA StepIInv == IInv /\ [Next]_vars => IInv'
<1> SUFFICES ASSUME IInv, [Next]_vars
             PROVE  IInv'
  OBVIOUS
<1>1. CASE UNCHANGED vars
  <2> USE <1>1 DEF vars, peers, main, procs
  <2>1. TypeOK'
    BY DEF IInv, TypeOK
  <2>2. AtWork' /\ Registered' /\ JustAccepted'
    BY DEF IInv, AtWork, Registered, JustAccepted, Cur
  <2>3. EventsAreOwn' /\ EventsTrue' /\ KeepAlive'
    BY DEF IInv, EventsAreOwn, EventsTrue, KeepAlive, Cur
  <2> QED  BY <2>1, <2>2, <2>3 DEF IInv
<1>2. ASSUME NEW c \in Conn, PeerNext(c)
      PROVE  IInv'
  BY <1>2, ConnectIInv, SendIInv, LeaveIInv DEF PeerNext
<1>3. CASE MainNext \/ RunThrows
  BY <1>3, RunWaitIInv, AcceptIInv, GiveIInv, DestroyStopIInv, DestroyJoinIInv, RunThrowsIInv
     DEF MainNext
<1>4. ASSUME NEW p \in Proc, ProcNext(p) \/ WaitFails(p)
      PROVE  IInv'
  BY <1>4, CreateIInv, LoopIInv, WaitIInv, EndOfEventsIInv, HangUpIInv, PickEventIInv,
     ReadFailsIInv, ReadIInv, AnswerIInv, WaitFailsIInv DEF ProcNext
<1> QED
  BY <1>1, <1>2, <1>3, <1>4 DEF Next

-------------------------------------------------------------------------------
(* Patient peers *)

\* A peer that waits sends the next chunk when it has all its answers.
LEMMA SendConversation ==
  ASSUME IInv, Conversation, NEW c \in Conn, Send(c)
  PROVE  Conversation'
<1>1. /\ sent' = [sent EXCEPT ![c] = @ + 1]
      /\ inbox' = [inbox EXCEPT ![c] = Append(@, sent[c] + 1)]
      /\ patient' = IF Len(answers[c]) = sent[c] THEN patient ELSE patient \ {c}
      /\ UNCHANGED <<answers, ppc, got>>
  BY DEF Send, procs
<1>2. inbox \in [Conn -> Chunks] /\ sent \in [Conn -> 0 .. MaxSent] /\ patient \subseteq Conn
  BY DEF IInv, TypeOK, Chunks
<1> SUFFICES ASSUME NEW d \in patient'
             PROVE  /\ \A i \in 1 .. Len(answers[d]) : answers[d][i] = <<i>>
                    /\ \/ /\ Len(answers[d]) = sent'[d] /\ inbox'[d] = <<>>
                          /\ \A p \in Proc : ~Holds(p, d)
                       \/ /\ Len(answers[d]) + 1 = sent'[d] /\ inbox'[d] = <<sent'[d]>>
                          /\ \A p \in Proc : ~Holds(p, d)
                       \/ /\ Len(answers[d]) + 1 = sent'[d] /\ inbox'[d] = <<>>
                          /\ \A p \in Proc : Holds(p, d) => got[p].chunks = <<sent'[d]>>
  BY <1>1 DEF Conversation, Holds, Cur
<1>3. d \in patient
  BY <1>1
<1>4. CASE d # c
  BY <1>1, <1>2, <1>3, <1>4 DEF Conversation
<1>5. CASE d = c
  <2>1. Len(answers[c]) = sent[c] /\ sent[c] \in Nat
    BY <1>1, <1>2, <1>5
  <2>2. inbox[c] = <<>> /\ \A p \in Proc : ~Holds(p, c)
    BY <1>3, <1>5, <2>1 DEF Conversation
  <2>3. inbox'[c] = <<sent[c] + 1>> /\ sent'[c] = sent[c] + 1
    BY <1>1, <1>2, <2>2
  <2> QED  BY <1>3, <1>5, <2>1, <2>2, <2>3 DEF Conversation
<1> QED  BY <1>4, <1>5

\* A read takes the one chunk a patient peer may have sent.
LEMMA ReadConversation ==
  ASSUME IInv, Conversation, NEW p \in Proc, Read(p)
  PROVE  Conversation'
<1>1. PICK c \in Conn : \E n \in 1 .. Len(inbox[c]) :
       /\ fdof[c] = Cur(p).fd
       /\ got' = [got EXCEPT ![p].chunks = SubSeq(inbox[c], 1, n)]
       /\ inbox' = [inbox EXCEPT ![c] = SubSeq(@, n + 1, Len(@))]
  BY DEF Read
<1>2. PICK n \in 1 .. Len(inbox[c]) :
       /\ got' = [got EXCEPT ![p].chunks = SubSeq(inbox[c], 1, n)]
       /\ inbox' = [inbox EXCEPT ![c] = SubSeq(inbox[c], n + 1, Len(inbox[c]))]
  BY <1>1
<1>3. /\ ppc[p] = "read" /\ Cur(p) \in events[p]
      /\ got[p] \in [event : Event, chunks : Chunks]
      /\ ppc' = [ppc EXCEPT ![p] = "answer"]
      /\ UNCHANGED <<sent, answers, patient>>
  BY DEF IInv, AtWork, Read, Goto
<1>4. c = Cur(p).of /\ \A q \in Proc : q # p => \A d \in events[q] : d.of # c
  BY <1>1, <1>3, EventFacts
<1>5. \A q \in Proc : q # p => (ppc[q] = "answer" => Cur(q).of # c)
  BY <1>4 DEF IInv, AtWork
<1>6. /\ \A q \in Proc : q # p => ppc'[q] = ppc[q] /\ got'[q] = got[q]
      /\ ppc'[p] = "answer" /\ got'[p].event = got[p].event
      /\ got'[p].chunks = SubSeq(inbox[c], 1, n)
      /\ \A d \in Conn : d # c => inbox'[d] = inbox[d]
      /\ inbox'[c] = SubSeq(inbox[c], n + 1, Len(inbox[c]))
  BY <1>2, <1>3 DEF IInv, TypeOK
<1>7. \A d \in Conn : d # c => \A q \in Proc : Holds(q, d)' = Holds(q, d)
  BY <1>3, <1>4, <1>6 DEF Holds, Cur
<1> SUFFICES ASSUME NEW d \in patient
             PROVE  /\ \A i \in 1 .. Len(answers[d]) : answers[d][i] = <<i>>
                    /\ \/ /\ Len(answers[d]) = sent[d] /\ inbox'[d] = <<>>
                          /\ \A q \in Proc : ~Holds(q, d)'
                       \/ /\ Len(answers[d]) + 1 = sent[d] /\ inbox'[d] = <<sent[d]>>
                          /\ \A q \in Proc : ~Holds(q, d)'
                       \/ /\ Len(answers[d]) + 1 = sent[d] /\ inbox'[d] = <<>>
                          /\ \A q \in Proc : Holds(q, d)' => got'[q].chunks = <<sent[d]>>
  BY <1>3 DEF Conversation
<1>8. d \in Conn
  BY DEF IInv, TypeOK
<1>9. CASE d # c
  <2>1. \A q \in Proc : Holds(q, d) => got'[q] = got[q]
    BY <1>3, <1>6 DEF Holds
  <2> QED  BY <1>6, <1>7, <1>8, <1>9, <2>1 DEF Conversation
<1>10. CASE d = c
  <2>1. inbox[c] # <<>>
    BY <1>2
  <2>2. Len(answers[c]) + 1 = sent[c] /\ inbox[c] = <<sent[c]>>
    BY <1>10, <2>1 DEF Conversation
  <2>3. n = 1
    BY <2>2
  <2>4. inbox'[c] = <<>> /\ got'[p].chunks = <<sent[c]>>
    <3>1. inbox[c] \in Chunks /\ Len(inbox[c]) = 1
      BY <2>2 DEF IInv, TypeOK, Chunks
    <3>2. \A i \in 1 .. 1 : inbox[c][i] \in 1 .. MaxSent
      BY <3>1 DEF Chunks
    <3>3. /\ SubSeq(inbox[c], 1, 1) \in Chunks /\ Len(SubSeq(inbox[c], 1, 1)) = 1
          /\ SubSeq(inbox[c], 1, 1)[1] = inbox[c][1]
      BY <3>2, SubSeqProperties DEF Chunks
    <3>4. SubSeq(inbox[c], 1, 1) = inbox[c]
      BY <3>1, <3>3, SeqEqual DEF Chunks
    <3>5. SubSeq(inbox[c], 1 + 1, 1) = <<>>
      BY SubSeqEmpty
    <3> QED  BY <1>6, <2>2, <2>3, <3>1, <3>4, <3>5
  <2>5. \A q \in Proc : Holds(q, c)' => q = p
    BY <1>5, <1>6 DEF Holds, Cur
  <2> QED  BY <1>10, <2>2, <2>4, <2>5 DEF Conversation
<1> QED  BY <1>9, <1>10

\* The answer goes to the connection it was read from and is the next one.
LEMMA AnswerConversation ==
  ASSUME IInv, Conversation, NEW p \in Proc, Answer(p)
  PROVE  Conversation'
<1>1. /\ ppc[p] = "answer" /\ Cur(p) \in events[p]
      /\ ppc' = [ppc EXCEPT ![p] = "event"]
      /\ got' = [got EXCEPT ![p] = <<>>]
      /\ UNCHANGED <<sent, inbox, patient>>
  BY DEF IInv, AtWork, Answer, Done, Goto
<1>c. PICK c \in Conn : c = Cur(p).of
  BY <1>1, EventFacts
<1>2. \A d \in Conn : fdof[d] = Cur(p).fd <=> d = c
  BY <1>1, <1>c, EventFacts
<1>3. \A q \in Proc : q # p => (ppc[q] = "answer" => Cur(q).of # c)
  BY <1>1, <1>c, EventFacts DEF IInv, AtWork
<1>4. \A d \in Conn : answers'[d] = IF d = c THEN Append(answers[d], got[p].chunks) ELSE answers[d]
  BY <1>2 DEF Answer
<1>5. /\ \A q \in Proc : q # p => ppc'[q] = ppc[q] /\ got'[q] = got[q]
      /\ ppc'[p] = "event"
  BY <1>1 DEF IInv, TypeOK
<1>6. Holds(p, c)
  BY <1>1, <1>c DEF Holds
<1>7. \A q \in Proc : ~Holds(q, c)'
  BY <1>3, <1>5 DEF Holds, Cur
<1>8. \A d \in Conn : \A q \in Proc : Holds(q, d)' => Holds(q, d) /\ got'[q] = got[q]
  BY <1>5 DEF Holds, Cur
<1>9. \A d \in patient : d \in Conn /\ answers[d] \in Seq(Chunks)
  BY DEF IInv, TypeOK, Chunks
<1> SUFFICES ASSUME NEW d \in patient
             PROVE  /\ \A i \in 1 .. Len(answers'[d]) : answers'[d][i] = <<i>>
                    /\ \/ /\ Len(answers'[d]) = sent[d] /\ inbox[d] = <<>>
                          /\ \A q \in Proc : ~Holds(q, d)'
                       \/ /\ Len(answers'[d]) + 1 = sent[d] /\ inbox[d] = <<sent[d]>>
                          /\ \A q \in Proc : ~Holds(q, d)'
                       \/ /\ Len(answers'[d]) + 1 = sent[d] /\ inbox[d] = <<>>
                          /\ \A q \in Proc : Holds(q, d)' => got'[q].chunks = <<sent[d]>>
  BY <1>1 DEF Conversation
<1>10. CASE d # c
  <2>1. answers'[d] = answers[d]
    BY <1>4, <1>9, <1>10
  <2> QED  BY <1>8, <1>9, <2>1 DEF Conversation
<1>11. CASE d = c
  <2>1. Len(answers[c]) + 1 = sent[c] /\ inbox[c] = <<>> /\ got[p].chunks = <<sent[c]>>
    BY <1>6, <1>11 DEF Conversation
  <2>2. \A i \in 1 .. Len(answers[c]) : answers[c][i] = <<i>>
    BY <1>11 DEF Conversation
  <2>3. answers[c] \in Seq(Chunks) /\ Len(answers[c]) \in Nat
    BY <1>9, <1>11
  <2>4. answers'[c] = Append(answers[c], <<sent[c]>>)
    BY <1>2, <1>4, <2>1
  <2>5. /\ Len(answers'[c]) = Len(answers[c]) + 1
        /\ \A i \in 1 .. Len(answers[c]) : answers'[c][i] = answers[c][i]
        /\ answers'[c][Len(answers[c]) + 1] = <<sent[c]>>
    BY <2>3, <2>4
  <2>6. \A i \in 1 .. Len(answers'[c]) : answers'[c][i] = <<i>>
    BY <2>1, <2>2, <2>3, <2>5
  <2> QED  BY <1>7, <1>11, <2>1, <2>5, <2>6
<1> QED  BY <1>10, <1>11

\* Every other step leaves the chunks where they are.
LEMMA OthersConversation ==
  ASSUME IInv, Conversation,
         UNCHANGED <<sent, inbox, answers, patient>>,
         \A p \in Proc : ppc'[p] = "answer" => ppc[p] = "answer" /\ got'[p] = got[p]
  PROVE  Conversation'
<1>1. \A p \in Proc, c \in Conn : Holds(p, c)' => Holds(p, c) /\ got'[p] = got[p]
  BY DEF Holds, Cur
<1>2. patient \subseteq Conn
  BY DEF IInv, TypeOK
<1> QED  BY <1>1, <1>2 DEF Conversation

LEMMA StepConversation == IInv /\ Conversation /\ [Next]_vars => Conversation'
<1> SUFFICES ASSUME IInv, Conversation, [Next]_vars
             PROVE  Conversation'
  OBVIOUS
<1>t. ppc \in [Proc -> {"start", "loop", "wait", "event", "read", "answer", "exited"}]
  BY DEF IInv, TypeOK
<1>1. CASE UNCHANGED vars
  <2>1. UNCHANGED <<sent, inbox, answers, patient, ppc, got>>
    BY <1>1 DEF vars, peers, procs
  <2> QED  BY <2>1, OthersConversation
<1>2. ASSUME NEW c \in Conn, PeerNext(c)
      PROVE  Conversation'
  <2>1. CASE Send(c)
    BY <2>1, SendConversation
  <2>2. CASE ~Send(c)
    <3>1. UNCHANGED <<sent, inbox, answers, patient, ppc, got>>
      BY <1>2, <2>2 DEF PeerNext, Connect, Leave, procs
    <3> QED  BY <3>1, OthersConversation
  <2> QED  BY <2>1, <2>2
<1>3. CASE MainNext \/ RunThrows
  <2>1. UNCHANGED <<sent, inbox, answers, patient, ppc, got>>
    BY <1>3 DEF MainNext, RunWait, Accept, Give, DestroyStop, DestroyJoin, RunThrows, peers, procs
  <2> QED  BY <2>1, OthersConversation
<1>4. ASSUME NEW p \in Proc, ProcNext(p) \/ WaitFails(p)
      PROVE  Conversation'
  <2>1. CASE Read(p)
    BY <2>1, ReadConversation
  <2>2. CASE Answer(p)
    BY <2>2, AnswerConversation
  <2>3. CASE ~Read(p) /\ ~Answer(p)
    <3>1. UNCHANGED <<sent, inbox, answers, patient>>
      BY <1>4, <2>3 DEF ProcNext, Create, Loop, Wait, EndOfEvents, HangUp, PickEvent, ReadFails,
         WaitFails, peers
    <3>2. \A q \in Proc : ppc'[q] = "answer" => ppc[q] = "answer" /\ got'[q] = got[q]
      <4>1. CASE UNCHANGED got
        <5>1. \/ ppc' = ppc
              \/ \E x \in {"loop", "wait", "event", "exited", "read"} : ppc' = [ppc EXCEPT ![p] = x]
          BY <1>4, <2>3 DEF ProcNext, Create, Loop, Wait, EndOfEvents, HangUp, PickEvent, ReadFails,
             WaitFails, Goto
        <5> QED  BY <1>t, <4>1, <5>1
      <4>2. CASE \E e \in events[p] : PickEvent(p, e)
        BY <1>t, <4>2 DEF PickEvent, Goto, IInv, TypeOK
      <4>3. CASE ReadFails(p)
        BY <1>t, <4>3 DEF ReadFails, Done, Goto, IInv, TypeOK
      <4> QED
        BY <1>4, <2>3, <4>1, <4>2, <4>3 DEF ProcNext, Create, Loop, Wait, EndOfEvents, HangUp, WaitFails
    <3> QED  BY <3>1, <3>2, OthersConversation
  <2> QED  BY <2>1, <2>2, <2>3
<1> QED
  BY <1>1, <1>2, <1>3, <1>4 DEF Next

LEMMA Invariance == Spec => [](IInv /\ Conversation)
BY InitIInv, StepIInv, StepConversation, PTL DEF Spec

-------------------------------------------------------------------------------
(* The theorems *)

\* The types, and that open connections have descriptors of their own.
THEOREM TypeCorrect == Spec => []TypeOK
<1>1. IInv => TypeOK
  BY DEF IInv
<1> QED  BY <1>1, Invariance, PTL

\* An event still is about the connection it was reported for when its turn
\* comes, however descriptors are reused.
THEOREM EventsOwn == Spec => []EventsAreOwn
<1>1. IInv => EventsAreOwn
  BY DEF IInv
<1> QED  BY <1>1, Invariance, PTL

\* The server closes no connection whose peer is there, except those it could
\* not register.
THEOREM KeepsAlive == Spec => []KeepAlive
<1>1. IInv => KeepAlive
  BY DEF IInv
<1> QED  BY <1>1, Invariance, PTL

\* No processor waits in read for one peer.
THEOREM NeverBlocks == Spec => []NeverBlocksInRead
<1>1. IInv => NeverBlocksInRead
  <2> SUFFICES ASSUME IInv, NEW p \in Proc, ppc[p] = "read", NEW c \in Conn, fdof[c] = Cur(p).fd
               PROVE  inbox[c] # <<>> \/ peer[c] # "up"
    BY DEF NeverBlocksInRead
  <2>1. Cur(p) \in events[p]
    BY DEF IInv, AtWork
  <2>2. c = Cur(p).of
    BY <2>1, EventFacts
  <2> QED  BY <2>1, <2>2 DEF IInv, EventsTrue
<1> QED  BY <1>1, Invariance, PTL

\* A peer that waits for its answers gets each of them, to its own requests and
\* in their order.
THEOREM PatientPeersAnswered == Spec => []PatientAnswered
<1>1. Conversation => PatientAnswered
  BY DEF Conversation, PatientAnswered
<1> QED  BY <1>1, Invariance, PTL
===============================================================================
