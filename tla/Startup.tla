-------------------------------- MODULE Startup --------------------------------
(***************************************************************************)
(* From the start of the program to the server's loop: main and load       *)
(* (highloadcup.cpp) with the file and process helpers of util.cpp, and    *)
(* the listening socket (hl_server.cpp).                                   *)
(*                                                                         *)
(* A file is its entity (the name up to the last "_", None if there is     *)
(* none), whether it can be opened, and the objects it was written with.   *)
(* Bytes other than braces are tokens.  An object is [id, text, effect]:   *)
(* what comes of it when base takes it is "stored", or                     *)
(*   "endless"   length_utf8 never ends on a text of it (see Utf8),        *)
(*   "emptyKey"  its id is 0, which the tables cannot take (see Dispatch), *)
(*   "unlisted"  it is stored, and then the background thread cannot put   *)
(*               it on a list (see VisitIndex).                            *)
(***************************************************************************)
EXTENDS Naturals, Sequences, SequencesExt, FiniteSets

CONSTANTS File,    \* the files there may be
          DataSet, \* the contents the archive may have: sets of files
          Leftover, \* files that an earlier start may have extracted
          MaxAddress \* bound: the addresses that getaddrinfo returns

ASSUME FilesAssumption == DataSet \subseteq SUBSET File /\ Leftover \subseteq File
ASSUME AddressAssumption == MaxAddress \in Nat \ {0}

None == "none"
NoFile == [entity |-> None, readable |-> FALSE, objects |-> <<>>]
Entity == {"users", "locations", "visits"}
path_temp == "./data"
Path == {path_temp, "elsewhere"}

\* The bytes of a file: an object with a list of objects.
Separated(objects) ==
  FoldLeft(LAMBDA acc, o : IF acc = <<>> THEN o.text ELSE acc \o <<",">> \o o.text, <<>>, objects)
Bytes(f) == <<"{", "name", "[">> \o Separated(f.objects) \o <<"]", "}">>

VARIABLES
  pc,         \* what main does
  argc, path_data,
  path_zip,   \* the archive: absent, being written, whole
  data,       \* the files that are or will be in it
  child,      \* the process that unpacks it
  dir,        \* the files in each directory
  files_list, \* files load has still to read
  file_ptr, at, first, brace_open, buffer,
  stored,     \* the objects that base has accepted, for each entity
  addresses,  \* addresses to be tried
  sockets,    \* how many sockets are open
  threw       \* the call whose failure run threw for

netVars == <<addresses, sockets, threw>>
mainVars == <<pc, files_list, file_ptr, at, first, brace_open, buffer, stored, netVars>>
worldVars == <<argc, path_data, data>>
vars == <<mainVars, worldVars, path_zip, child, dir>>

Init ==
  /\ pc = "main"
  /\ argc \in {2, 3} /\ path_data \in Path
  /\ path_zip \in {"absent", "partial", "whole"}
  /\ data \in DataSet
  /\ child = None
  /\ dir \in [Path -> {{}, Leftover}]
  /\ files_list = {} /\ file_ptr = NoFile /\ at = 0
  /\ first = TRUE /\ brace_open = FALSE /\ buffer = <<>>
  /\ stored = [e \in Entity |-> {}]
  /\ addresses = 0 /\ sockets = 0 /\ threw = None

-------------------------------------------------------------------------------
(* The archive and the child process *)

Deliver ==
  /\ \/ path_zip = "absent" /\ path_zip' = "partial"
     \/ path_zip = "partial" /\ path_zip' = "whole"
  /\ UNCHANGED <<mainVars, worldVars, child, dir>>

\* unzip can fail with any part of the files extracted, and succeeds only with an
\* archive that is whole.
ChildEnds ==
  /\ child = "running"
  /\ \/ /\ path_zip = "whole"
        /\ child' = "ok"
        /\ dir' = [dir EXCEPT ![path_temp] = @ \cup data]
     \/ /\ child' = "failed"
        /\ \E part \in SUBSET data : dir' = [dir EXCEPT ![path_temp] = @ \cup part]
  /\ UNCHANGED <<mainVars, worldVars, path_zip>>

-------------------------------------------------------------------------------
(* The main thread *)

Goto(from, to) == pc = from /\ pc' = to
KeepsFile == UNCHANGED <<files_list, file_ptr, at, first, brace_open, buffer, stored>>
KeepsNet == UNCHANGED netVars
KeepsWorld == UNCHANGED <<worldVars, path_zip, dir>>
KeepsRest == KeepsFile /\ KeepsWorld /\ UNCHANGED child

Usage == argc # 3 /\ Goto("main", "ended") /\ KeepsNet /\ KeepsRest
Load == argc = 3 /\ Goto("main", "wait") /\ KeepsNet /\ KeepsRest

\* file_exists, asked again every 100 ms; a second later unzip is started.
FindArchive ==
  path_zip # "absent" /\ Goto("wait", "found") /\ KeepsNet /\ KeepsRest

ExecCommand ==
  Goto("found", "unzip") /\ child' = "running" /\ KeepsNet /\ KeepsFile /\ KeepsWorld

\* waitpid; nobody looks at the status.
WaitCommand ==
  child \in {"ok", "failed"} /\ Goto("unzip", "list") /\ KeepsNet /\ KeepsRest

\* In the order readdir gives, which is any.
GetFilesList ==
  /\ Goto("list", "files")
  /\ files_list' = dir[path_data]
  /\ UNCHANGED <<file_ptr, at, first, brace_open, buffer, stored, child>> /\ KeepsNet /\ KeepsWorld

OpenFile ==
  /\ pc = "files"
  /\ \E f \in files_list :
       /\ files_list' = files_list \ {f}
       /\ file_ptr' = f
       /\ pc' = IF f.entity # None /\ f.readable THEN "scan" ELSE "files"
  /\ at' = 0 /\ first' = TRUE /\ brace_open' = FALSE /\ buffer' = <<>>
  /\ UNCHANGED <<stored, child>> /\ KeepsNet /\ KeepsWorld

\* The whole object that a text is, if it is one.
Parsed(text) == {o \in UNION {ToSet(f.objects) : f \in File} : o.text = text}

\* base::insert: what is no whole object is refused, and an id that is there
\* already; load does not look at the result.  Only users and locations have
\* texts that are measured.
Insert(e, text) ==
  LET taken == IF e \in Entity THEN Parsed(text) ELSE {}
  IN IF e # "visits" /\ \E o \in taken : o.effect = "endless"
     THEN pc' = "measuring" /\ UNCHANGED stored
     ELSE IF \E o \in taken : o.effect = "emptyKey"
     THEN pc' = "aborted" /\ UNCHANGED stored
     ELSE /\ stored' = [d \in Entity |->
                         IF d = e THEN stored[d] \cup {o \in taken : o.id \notin {p.id : p \in stored[d]}}
                                  ELSE stored[d]]
          /\ UNCHANGED pc

\* Mutant: a second opening brace does not start the object anew.
Gathered_NoClear(ch) == Append(buffer, ch)

Gathered(ch) == Append(IF ch = "{" THEN <<>> ELSE buffer, ch)

\* One byte: the file's own brace is skipped, every other opening brace starts an
\* object, and the first closing brace ends it.
Scan ==
  /\ pc = "scan" /\ at < Len(Bytes(file_ptr))
  /\ at' = at + 1
  /\ LET ch == Bytes(file_ptr)[at + 1]
         open == brace_open \/ ch = "{"
     IN IF ch = "{" /\ first
        THEN first' = FALSE /\ UNCHANGED <<pc, brace_open, buffer, stored>>
        ELSE /\ buffer' = Gathered(ch)
             /\ brace_open' = (open /\ ch # "}")
             /\ IF ch = "}" /\ open THEN Insert(file_ptr.entity, Gathered(ch)) ELSE UNCHANGED <<pc, stored>>
             /\ UNCHANGED first
  /\ UNCHANGED <<files_list, file_ptr, child>> /\ KeepsNet /\ KeepsWorld

CloseFile ==
  /\ Goto("scan", "files")
  /\ at = Len(Bytes(file_ptr))
  /\ KeepsNet /\ KeepsRest

\* hl_server's constructor starts the processors (see Server); run asks for the
\* addresses to listen at.
Run ==
  /\ files_list = {}
  /\ \/ Goto("files", "socket") /\ addresses' \in 1 .. MaxAddress /\ UNCHANGED threw
     \/ Goto("files", "thrown") /\ threw' = "getaddrinfo" /\ UNCHANGED addresses
  /\ UNCHANGED sockets /\ KeepsRest

\* create_and_bind: the next address is tried, if socket fails the one after it.
OpenSocket ==
  /\ addresses > 0
  /\ \/ Goto("socket", "bind") /\ sockets' = sockets + 1 /\ UNCHANGED addresses
     \/ Goto("socket", "socket") /\ addresses' = addresses - 1 /\ UNCHANGED sockets
  /\ UNCHANGED threw /\ KeepsRest

\* Mutant: a socket that could not be bound is left open.
Bind_NoClose ==
  /\ \/ Goto("bind", "fcntl") /\ UNCHANGED <<addresses, sockets>>
     \/ Goto("bind", "socket") /\ addresses' = addresses - 1 /\ UNCHANGED sockets
  /\ UNCHANGED threw /\ KeepsRest

Bind ==
  /\ \/ Goto("bind", "fcntl") /\ UNCHANGED <<addresses, sockets>>
     \/ Goto("bind", "socket") /\ addresses' = addresses - 1 /\ sockets' = sockets - 1
  /\ UNCHANGED threw /\ KeepsRest

CouldNotBind ==
  /\ addresses = 0
  /\ Goto("socket", "thrown") /\ threw' = "bind"
  /\ UNCHANGED <<addresses, sockets>> /\ KeepsRest

\* The socket is made non-blocking, listens, and is watched by epoll.
Prepare ==
  /\ \/ /\ Goto("fcntl", "listen") \/ Goto("listen", "epoll") \/ Goto("epoll", "run")
        /\ UNCHANGED threw
     \/ \E call \in {"fcntl", "listen", "epoll"} : Goto(call, "thrown") /\ threw' = call
  /\ UNCHANGED <<addresses, sockets>> /\ KeepsRest

\* An exception of run, also of its loop (see Server), is logged, and return
\* destroys the server, whose destructor joins the processors.
Catch ==
  /\ \/ Goto("thrown", "joining") /\ UNCHANGED threw
     \/ Goto("run", "joining") /\ threw' = "epoll_wait"
  /\ UNCHANGED <<addresses, sockets>> /\ KeepsRest

\* A processor waits without a timeout and before the loop has no connection: its
\* thread is over only if epoll_create1 failed or epoll_wait was interrupted.
Joined == Goto("joining", "ended") /\ KeepsNet /\ KeepsRest

\* The background thread, at any time after it was given the visit.
ListAborts ==
  /\ pc # "aborted"
  /\ \E o \in stored["visits"] : o.effect = "unlisted"
  /\ pc' = "aborted"
  /\ KeepsNet /\ KeepsRest

Main ==
  \/ Usage \/ Load \/ FindArchive \/ ExecCommand \/ WaitCommand \/ GetFilesList
  \/ OpenFile \/ Scan \/ CloseFile
  \/ Run \/ OpenSocket \/ Bind \/ CouldNotBind \/ Prepare
  \/ (pc = "thrown" /\ Catch)

Next == Main \/ Catch \/ Joined \/ ListAborts \/ Deliver \/ ChildEnds
Spec == Init /\ [][Next]_vars /\ WF_vars(Main) /\ WF_vars(ChildEnds)

-------------------------------------------------------------------------------
(* Properties *)

\* The scanner takes an object whole if its strings hold no braces.
NoBraceInside(o) == \A i \in 2 .. Len(o.text) - 1 : o.text[i] \notin {"{", "}"}

\* What the files of a directory say of an entity, in objects that can be taken.
Readable(files, e) ==
  {o \in UNION {ToSet(f.objects) : f \in {g \in files : g.entity = e /\ g.readable}} : NoBraceInside(o)}
Ids(objects) == {o.id : o \in objects}

\* Once the server runs, all objects are stored that the directory's files hold
\* and that have no brace inside: once each, under their entity, and nothing else;
\* an object that is torn at a brace takes no other with it.  If the archive was
\* unpacked and the directory is the one it is unpacked to, that is the archive.
LoadedExactly ==
  pc = "run" => \A e \in Entity :
    /\ stored[e] \subseteq Readable(dir[path_data], e)
    /\ \A o, p \in stored[e] : o.id = p.id => o = p
    /\ Ids(stored[e]) = Ids(Readable(dir[path_data], e))
    /\ child = "ok" /\ path_data = path_temp => Ids(Readable(data, e)) \subseteq Ids(stored[e])

\* What of the files that are loaded base cannot take.
Bad(effect) ==
  \E e \in Entity : \E o \in Readable(dir[path_data], e) :
    o.effect = effect /\ (effect = "endless" => e # "visits") /\ (effect = "unlisted" => e = "visits")

\* Whether or not unzip works and whatever the files hold, once the archive is put
\* there the server gets to its loop, with one open socket; or a call of the
\* network failed and main waits for the processors, maybe for ever, because of
\* bind only if no address was left to be tried, and then with no socket open; or
\* it does not get there, and then only because of an object that base cannot take.
StartsServing ==
  argc = 3 /\ path_zip # "absent" ~>
    \/ pc = "run" /\ sockets = 1
    \/ pc \in {"joining", "ended"} /\ threw # None /\ (threw = "bind" => addresses = 0 /\ sockets = 0)
    \/ pc = "measuring" /\ Bad("endless")
    \/ pc = "aborted" /\ (Bad("emptyKey") \/ Bad("unlisted"))
===============================================================================
