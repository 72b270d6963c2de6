-------------------------------- MODULE Server --------------------------------
(***************************************************************************)
(* The connections of the server (hl_server.cpp, processor.cpp): the main  *)
(* thread accepts and deals connections out to the processors in turn, each*)
(* processor serves its own epoll set, and the peers do what they like.    *)
(*                                                                         *)
(* Sockets, epoll sets and descriptors belong to the kernel and are        *)
(* modelled as the code uses them: accept returns the lowest free          *)
(* descriptor, so a closed one is soon another connection's; epoll is      *)
(* level-triggered; close takes a socket out of every epoll set.  What     *)
(* arrives on a connection are chunks, none larger than the buffer; a chunk*)
(* is a whole request if the peer waits for its answer before it sends the *)
(* next.  What is answered is not modelled here, only which chunks were    *)
(* read for it.                                                            *)
(***************************************************************************)
EXTENDS Naturals, Sequences, FiniteSets

CONSTANTS Conn,    \* connections that peers may open
          N,       \* m_threads_amount
          MaxFd,   \* bound: descriptors for accepted connections
          MaxSent  \* bound: chunks a peer sends on one connection

ASSUME NPositive == N \in Nat \ {0}
ASSUME BoundsPositive == MaxFd \in Nat \ {0} /\ MaxSent \in Nat

Proc == 0 .. N - 1
Fd == 1 .. MaxFd
NoFd == 0

VARIABLES
  phase,   \* of each connection: "new", "backlog", "open" or "closed"
  peer,    \* "up", "eof" after it shut down, "reset" after it went away
  inbox,   \* chunks received and not read
  sent,    \* how many chunks the peer sent
  answers, \* for each answer, the chunks read for it
  patient, \* history: connections whose peer always waited for its answers
  fdof,    \* the descriptor of a connection
  apc,     \* where main is in hl_server::run and ~hl_server
  counter, \* threads_counter; in ~hl_server, the processor being destroyed
  taken,   \* socket_in
  epoll,   \* m_epoll_fd of each processor: 0, made, or failed
  epset,   \* what is registered with it
  ppc,     \* where each thread_function is
  events,  \* events_in from event_num on
  got,     \* what read put into the buffer
  stop,    \* m_stop_flag
  refused, \* history: connections that could not be registered
  alive    \* no SIGPIPE arrived

peers == <<phase, peer, inbox, sent, answers, patient, fdof, refused>>
main == <<apc, counter, taken, stop>>
procs == <<epoll, epset, ppc, events, got>>
vars == <<peers, main, procs, alive>>

-------------------------------------------------------------------------------
(* Peers *)

Connect(c) ==
  /\ phase[c] = "new"
  /\ phase' = [phase EXCEPT ![c] = "backlog"]
  /\ UNCHANGED <<peer, inbox, sent, answers, patient, fdof, refused, main, procs, alive>>

Send(c) ==
  /\ phase[c] \in {"backlog", "open"}
  /\ peer[c] = "up"
  /\ sent[c] < MaxSent
  /\ sent' = [sent EXCEPT ![c] = @ + 1]
  /\ inbox' = [inbox EXCEPT ![c] = Append(@, sent[c] + 1)]
  /\ patient' = IF Len(answers[c]) = sent[c] THEN patient ELSE patient \ {c}
  /\ UNCHANGED <<phase, peer, answers, fdof, refused, main, procs, alive>>

Leave(c, how) ==
  /\ phase[c] \in {"backlog", "open"}
  /\ peer[c] # "reset" /\ peer[c] # how
  /\ peer' = [peer EXCEPT ![c] = how]
  /\ UNCHANGED <<phase, inbox, sent, answers, patient, fdof, refused, main, procs, alive>>

-------------------------------------------------------------------------------
(* hl_server::run *)

\* Nothing for a descriptor that is not in use.
Close(fd) ==
  LET gone == {c \in Conn : fdof[c] = fd}
  IN /\ phase' = [c \in Conn |-> IF c \in gone THEN "closed" ELSE phase[c]]
     /\ fdof' = [c \in Conn |-> IF c \in gone THEN NoFd ELSE fdof[c]]
     /\ epset' = [p \in Proc |-> epset[p] \ gone]

Backlog == {c \in Conn : phase[c] = "backlog"}
FreeFd == Fd \ {fdof[c] : c \in Conn}

\* epoll_wait reports the listening socket while a connection waits.
RunWait ==
  /\ apc = "wait"
  /\ Backlog # {}
  /\ apc' = "accept"
  /\ UNCHANGED <<peers, counter, taken, stop, procs, alive>>

\* epoll_wait is interrupted or reports an error: run throws, main catches.
RunThrows ==
  /\ apc = "wait"
  /\ apc' = "destroy"
  /\ counter' = 0
  /\ UNCHANGED <<peers, taken, stop, procs, alive>>

\* accept returns a connection and the lowest free descriptor.
Accepted(c, fd) ==
  /\ c \in Backlog
  /\ \A free \in FreeFd : fd <= free
  /\ phase' = [phase EXCEPT ![c] = "open"]
  /\ fdof' = [fdof EXCEPT ![c] = fd]
  /\ taken' = fd
  /\ apc' = "give"

\* The inner loop: accept until it fails, for want of a connection or of a descriptor.
Accept ==
  /\ apc = "accept"
  /\ \/ /\ Backlog = {} \/ FreeFd = {}
        /\ apc' = "wait"
        /\ UNCHANGED <<phase, fdof, counter, taken>>
     \/ /\ \E c \in Conn : \E fd \in FreeFd : Accepted(c, fd)
        /\ counter' = (counter + 1) % N
  /\ UNCHANGED <<peer, inbox, sent, answers, patient, refused, stop, procs, alive>>

\* Mutant: the new socket is registered with every processor.
Give_ToAll ==
  /\ apc = "give"
  /\ epset' = [p \in Proc |-> IF epoll[p] = "made"
                              THEN epset[p] \cup {c \in Conn : fdof[c] = taken} ELSE epset[p]]
  /\ apc' = "accept"
  /\ taken' = NoFd
  /\ UNCHANGED <<peers, counter, stop, epoll, ppc, events, got, alive>>

\* Mutant: the result of epoll_ctl is ignored.
Give_Unchecked ==
  /\ apc = "give"
  /\ epset' = IF epoll[counter] = "made"
              THEN [epset EXCEPT ![counter] = @ \cup {c \in Conn : fdof[c] = taken}] ELSE epset
  /\ apc' = "accept"
  /\ taken' = NoFd
  /\ UNCHANGED <<peers, counter, stop, epoll, ppc, events, got, alive>>

\* Mutant: epoll_ctl is tried again until it succeeds.
Give_Retries ==
  /\ apc = "give"
  /\ epoll[counter] = "made"
  /\ epset' = [epset EXCEPT ![counter] = @ \cup {c \in Conn : fdof[c] = taken}]
  /\ apc' = "accept"
  /\ taken' = NoFd
  /\ UNCHANGED <<peers, counter, stop, epoll, ppc, events, got, alive>>

\* processor::give: epoll_ctl fails without an epoll descriptor.
Give ==
  LET c == CHOOSE x \in Conn : fdof[x] = taken
  IN /\ apc = "give"
     /\ IF epoll[counter] = "made"
        THEN /\ epset' = [epset EXCEPT ![counter] = @ \cup {c}]
             /\ UNCHANGED <<phase, fdof, refused>>
        ELSE Close(taken) /\ refused' = refused \cup {c}
     /\ apc' = "accept"
     /\ taken' = NoFd
     /\ UNCHANGED <<peer, inbox, sent, answers, patient, counter, stop, epoll, ppc, events, got, alive>>

-------------------------------------------------------------------------------
(* ~hl_server: the processors are destroyed one after the other. *)

DestroyStop ==
  /\ apc = "destroy"
  /\ stop' = [stop EXCEPT ![counter] = TRUE]
  /\ apc' = "join"
  /\ UNCHANGED <<peers, counter, taken, procs, alive>>

DestroyJoin ==
  /\ apc = "join"
  /\ ppc[counter] = "exited"
  /\ IF counter = N - 1 THEN apc' = "ended" /\ UNCHANGED counter
                        ELSE apc' = "destroy" /\ counter' = counter + 1
  /\ UNCHANGED <<peers, taken, stop, procs, alive>>

-------------------------------------------------------------------------------
(* processor::thread_function *)

Goto(p, from, to) == ppc[p] = from /\ ppc' = [ppc EXCEPT ![p] = to]

Create(p) ==
  /\ \/ Goto(p, "start", "loop") /\ epoll' = [epoll EXCEPT ![p] = "made"]
     \/ Goto(p, "start", "exited") /\ epoll' = [epoll EXCEPT ![p] = "failed"]
  /\ UNCHANGED <<peers, main, epset, events, got, alive>>

\* Mutant: while (true).
Loop_Forever(p) ==
  /\ Goto(p, "loop", "wait")
  /\ UNCHANGED <<peers, main, epoll, epset, events, got, alive>>

\* while (!m_stop_flag)
Loop(p) ==
  /\ Goto(p, "loop", IF stop[p] THEN "exited" ELSE "wait")
  /\ UNCHANGED <<peers, main, epoll, epset, events, got, alive>>

Ready(p) == {c \in epset[p] : inbox[c] # <<>> \/ peer[c] # "up"}

\* epoll_wait fills events_in; max_events is never reached with so few sockets.
\* `of` is not part of an event: it remembers whose descriptor it was.
Wait(p) ==
  /\ Goto(p, "wait", "event")
  /\ Ready(p) # {}
  /\ events' = [events EXCEPT ![p] = {[fd |-> fdof[c], of |-> c, hup |-> peer[c] = "reset"] :
                                        c \in Ready(p)}]
  /\ UNCHANGED <<peers, main, epoll, epset, got, alive>>

\* epoll_wait is interrupted: break.
WaitFails(p) ==
  /\ Goto(p, "wait", "exited")
  /\ UNCHANGED <<peers, main, epoll, epset, events, got, alive>>

EndOfEvents(p) ==
  /\ Goto(p, "event", "loop")
  /\ events[p] = {}
  /\ UNCHANGED <<peers, main, epoll, epset, events, got, alive>>

\* Mutant: no `continue` after the close.
HangUp_FallsThrough(p, e) ==
  /\ Goto(p, "event", "read")
  /\ e.hup
  /\ Close(e.fd)
  /\ got' = [got EXCEPT ![p] = [event |-> e, chunks |-> <<>>]]
  /\ UNCHANGED <<peer, inbox, sent, answers, patient, refused, main, epoll, events, alive>>

\* EPOLLERR or EPOLLHUP: close the socket.
HangUp(p, e) ==
  /\ ppc[p] = "event"
  /\ e.hup
  /\ Close(e.fd)
  /\ events' = [events EXCEPT ![p] = @ \ {e}]
  /\ UNCHANGED <<peer, inbox, sent, answers, patient, refused, main, epoll, ppc, got, alive>>

PickEvent(p, e) ==
  /\ Goto(p, "event", "read")
  /\ ~e.hup
  /\ got' = [got EXCEPT ![p] = [event |-> e, chunks |-> <<>>]]
  /\ UNCHANGED <<peers, main, epoll, epset, events, alive>>

Cur(p) == got[p].event

Done(p) ==
  /\ events' = [events EXCEPT ![p] = @ \ {Cur(p)}]
  /\ got' = [got EXCEPT ![p] = <<>>]

\* read returns -1 or 0: the peer is gone and has left nothing.
ReadFails(p) ==
  /\ Goto(p, "read", "event")
  /\ \A c \in Conn : fdof[c] = Cur(p).fd => inbox[c] = <<>> /\ peer[c] # "up"
  /\ Close(Cur(p).fd)
  /\ Done(p)
  /\ UNCHANGED <<peer, inbox, sent, answers, patient, refused, main, epoll, alive>>

\* Mutant: the buffer is passed on with what the socket got before.
Read_WithoutTaking(p) ==
  /\ Goto(p, "read", "answer")
  /\ \E c \in Conn : \E n \in 1 .. Len(inbox[c]) :
       /\ fdof[c] = Cur(p).fd
       /\ got' = [got EXCEPT ![p].chunks = SubSeq(inbox[c], 1, n)]
  /\ UNCHANGED <<peers, main, epoll, epset, events, alive>>

\* read returns what has come so far, as much as the buffer holds.
Read(p) ==
  /\ Goto(p, "read", "answer")
  /\ \E c \in Conn : \E n \in 1 .. Len(inbox[c]) :
       /\ fdof[c] = Cur(p).fd
       /\ got' = [got EXCEPT ![p].chunks = SubSeq(inbox[c], 1, n)]
       /\ inbox' = [inbox EXCEPT ![c] = SubSeq(@, n + 1, Len(@))]
  /\ UNCHANGED <<phase, peer, sent, answers, patient, fdof, refused, main, epoll, epset, events, alive>>

\* Mutant: the connection is closed after the answer.
Answer_Closes(p) ==
  /\ Goto(p, "answer", "event")
  /\ answers' = [c \in Conn |-> IF fdof[c] = Cur(p).fd THEN Append(answers[c], got[p].chunks)
                                                       ELSE answers[c]]
  /\ Close(Cur(p).fd)
  /\ Done(p)
  /\ UNCHANGED <<peer, inbox, sent, patient, refused, main, epoll, alive>>

\* parse, handle and one write, whose result is ignored; for a peer that went
\* away the answer is lost, or the write raises SIGPIPE and ends the process.
Answer(p) ==
  /\ Goto(p, "answer", "event")
  /\ answers' = [c \in Conn |-> IF fdof[c] = Cur(p).fd THEN Append(answers[c], got[p].chunks)
                                                       ELSE answers[c]]
  /\ alive' \in {TRUE} \cup {FALSE : c \in {x \in Conn : fdof[x] = Cur(p).fd /\ peer[x] = "reset"}}
  /\ Done(p)
  /\ UNCHANGED <<phase, peer, inbox, sent, patient, fdof, refused, main, epoll, epset>>

-------------------------------------------------------------------------------
Init ==
  /\ phase = [c \in Conn |-> "new"]
  /\ peer = [c \in Conn |-> "up"]
  /\ inbox = [c \in Conn |-> <<>>]
  /\ sent = [c \in Conn |-> 0]
  /\ answers = [c \in Conn |-> <<>>]
  /\ patient = Conn
  /\ fdof = [c \in Conn |-> NoFd]
  /\ apc = "wait"
  /\ counter = 0
  /\ taken = NoFd
  /\ epoll = [p \in Proc |-> "none"]
  /\ epset = [p \in Proc |-> {}]
  /\ ppc = [p \in Proc |-> "start"]
  /\ events = [p \in Proc |-> {}]
  /\ got = [p \in Proc |-> <<>>]
  /\ stop = [p \in Proc |-> FALSE]
  /\ refused = {}
  /\ alive = TRUE

PeerNext(c) == Connect(c) \/ Send(c) \/ \E how \in {"eof", "reset"} : Leave(c, how)

MainNext == RunWait \/ Accept \/ Give \/ DestroyStop \/ DestroyJoin

ProcNext(p) ==
  \/ Create(p) \/ Loop(p) \/ Wait(p) \/ EndOfEvents(p)
  \/ \E e \in events[p] : HangUp(p, e) \/ PickEvent(p, e)
  \/ ReadFails(p) \/ Read(p) \/ Answer(p)

Next ==
  /\ alive
  /\ \/ \E c \in Conn : PeerNext(c)
     \/ MainNext
     \/ RunThrows
     \/ \E p \in Proc : ProcNext(p) \/ WaitFails(p)

Spec == Init /\ [][Next]_vars

\* Fairness: threads that can run do.  Nothing is assumed of peers, and nothing
\* makes epoll_wait fail.
FairSpec == Spec /\ WF_vars(alive /\ MainNext) /\ \A p \in Proc : WF_vars(alive /\ ProcNext(p))

-------------------------------------------------------------------------------
(* Properties *)

Event == [fd : Fd, of : Conn, hup : BOOLEAN]

\* The types; open connections have different descriptors, and no other has one.
TypeOK ==
  /\ phase \in [Conn -> {"new", "backlog", "open", "closed"}]
  /\ peer \in [Conn -> {"up", "eof", "reset"}]
  /\ inbox \in [Conn -> Seq(1 .. MaxSent)]
  /\ sent \in [Conn -> 0 .. MaxSent]
  /\ answers \in [Conn -> Seq(Seq(1 .. MaxSent))]
  /\ patient \in SUBSET Conn
  /\ fdof \in [Conn -> Fd \cup {NoFd}]
  /\ apc \in {"wait", "accept", "give", "destroy", "join", "ended"}
  /\ counter \in Proc
  /\ taken \in Fd \cup {NoFd}
  /\ epoll \in [Proc -> {"none", "made", "failed"}]
  /\ epset \in [Proc -> SUBSET Conn]
  /\ ppc \in [Proc -> {"start", "loop", "wait", "event", "read", "answer", "exited"}]
  /\ events \in [Proc -> SUBSET Event]
  /\ got \in [Proc -> {<<>>} \cup [event : Event, chunks : Seq(1 .. MaxSent)]]
  /\ stop \in [Proc -> BOOLEAN]
  /\ refused \in SUBSET Conn
  /\ alive \in BOOLEAN
  /\ \A c \in Conn : phase[c] = "open" <=> fdof[c] # NoFd
  /\ \A c, d \in Conn : fdof[c] = fdof[d] /\ fdof[c] # NoFd => c = d

\* Descriptors are reused at once, but an event a processor still holds is about
\* the connection it was reported for: nobody else closes it meanwhile.
EventsAreOwn ==
  \A p \in Proc : \A e \in events[p] : fdof[e.of] = e.fd /\ e.of \in epset[p]

\* The sockets are blocking, but a processor reads only where there is something
\* to read or an end to see: it never waits for one peer while others are served.
NeverBlocksInRead ==
  \A p \in Proc : ppc[p] = "read" =>
    \A c \in Conn : fdof[c] = Cur(p).fd => inbox[c] # <<>> \/ peer[c] # "up"

\* A peer that waits for each answer gets one answer to each request, in order;
\* other peers' answers never go to it.
PatientAnswered ==
  \A c \in patient : \A i \in 1 .. Len(answers[c]) : answers[c][i] = <<i>>

\* Connection: keep-alive.  The server closes a connection only after its peer
\* left, or if it could not be registered because the processor was not ready.
KeepAlive == \A c \in Conn : phase[c] = "closed" => peer[c] # "up" \/ c \in refused

\* What arrives on an accepted connection is read, or the connection is closed,
\* unless the processor it was given to has ended its thread.
RequestsRead ==
  \A c \in Conn : phase[c] = "open" /\ inbox[c] # <<>> ~>
    \/ inbox[c] = <<>> \/ phase[c] # "open" \/ ~alive
    \/ \E p \in Proc : c \in epset[p] /\ ppc[p] = "exited"

\* A waiting connection is accepted, unless there is no descriptor for it or run
\* has ended.
BacklogAccepted ==
  \A c \in Conn : phase[c] = "backlog" ~>
    phase[c] # "backlog" \/ FreeFd = {} \/ apc \in {"destroy", "join", "ended"} \/ ~alive

\* ~processor returns if a peer does something: the thread is woken by events only.
StopsWithTraffic ==
  \A p \in Proc : stop[p] /\ Ready(p) # {} ~> ppc[p] = "exited" \/ ~alive
===============================================================================
