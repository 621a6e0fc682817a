--------------------------------- MODULE Wrap ---------------------------------
(***************************************************************************)
(* The Wrap functions of every platform.  Each tries constructors in       *)
(* order; a constructor opens descriptors and handles one by one, and one  *)
(* that fails closes some of what it has opened.  What it leaves is closed *)
(* by the garbage collector if it is an *os.File, and by nobody otherwise. *)
(* The objects that the caller passes, and the kernel's answers, are       *)
(* chosen by the environment.                                              *)
(***************************************************************************)
EXTENDS Sequences, Naturals

VARIABLES call,     \* the call: its kind and what it wraps
          plan,     \* the constructors still to try, the current one first
          at,       \* the next step of the current constructor
          held,     \* what the current constructor, or the backend, has open
          stray,    \* what failed constructors left open
          object,   \* the wrapped object: open, closed, shut (before), none
          failed,   \* history: the steps that failed
          result    \* none, failed, the backend's constructor, closed

vars == <<call, plan, at, held, stray, object, failed, result>>

-----------------------------------------------------------------------------
ReadPipe == {"readCancelReader", "readCancelWriter"}
WritePipe == {"writeCancelReader", "writeCancelWriter"}
Pipes == ReadPipe \cup WritePipe
Epolls == {"readEpoll", "writeEpoll"}
Events == {"readCancel", "writeCancel"}

(* What has a finalizer: *os.File, from os.Pipe and os.NewFile.              *)
Files == Pipes \cup {"conout"}

(* A step: what it opens, and what the code closes when it fails.            *)
Step(name, opens, undo) == [name |-> name, opens |-> opens, undo |-> undo]

Check(name) == Step(name, {}, {})

NewEpollIO ==
  <<Check("descriptor"),
    Step("readEpoll", {"readEpoll"}, {}),
    Step("writeEpoll", {"writeEpoll"}, {"readEpoll"}),
    Step("readPipe", ReadPipe, Epolls),
    Step("writePipe", WritePipe, Epolls \cup ReadPipe),
    Step("addReader", {}, Epolls \cup Pipes),
    Step("addWriter", {}, Epolls \cup Pipes),
    Step("addReadCancel", {}, Epolls \cup Pipes),
    Step("addWriteCancel", {}, Epolls \cup Pipes)>>

NewSelectIO ==
  <<Check("range"),
    Step("readPipe", ReadPipe, {}),
    Step("writePipe", WritePipe, ReadPipe),
    Check("pipeRange")>>

(* Mutant: the second pipe fails and the queue stays open.                   *)
KqueueKept ==
  <<Check("descriptor"),
    Step("kQueue", {"kQueue"}, {}),
    Step("readPipe", ReadPipe, {"kQueue"}),
    Step("writePipe", WritePipe, ReadPipe)>>

NewKqueueIO ==
  <<Check("descriptor"),
    Step("kQueue", {"kQueue"}, {}),
    Step("readPipe", ReadPipe, {"kQueue"}),
    Step("writePipe", WritePipe, {"kQueue"} \cup ReadPipe)>>

WrapDeadliner == <<Check("deadline")>>

(* The two events of newWinOverlappedIO; on an error it closes the handle it *)
(* was to use, be it its own or that of the caller.                          *)
CreateEvents(handle) ==
  <<Step("readCancel", {"readCancel"}, {handle}),
    Step("writeCancel", {"writeCancel"}, {handle, "readCancel"})>>

NewWinOverlappedIO == <<Check("fileType"), Check("mode")>> \o CreateEvents("object")

ReopenedIO ==
  <<Check("fileType"), Check("mode"), Step("reopen", {"overlapped"}, {})>>
    \o CreateEvents("overlapped")

OpenConsoleReader ==
  <<Step("conin", {"conin"}, {}),
    Step("prepare", {"consoleMode"}, {"conin"}),
    Step("flush", {}, {"conin"}),
    Step("readCancel", {"readCancel"}, {"conin"}),
    Step("writeCancel", {"writeCancel"}, {"conin", "readCancel"})>>

OpenConsoleWriter ==
  <<Step("conout", {"conout"}, {}),
    Step("readCancel", {"readCancel"}, {"conout"}),
    Step("writeCancel", {"writeCancel"}, {"conout", "readCancel"})>>

NewWinConsoleIO ==
  <<Check("isConsole"),
    Step("conin", {"conin"}, {}),
    Step("prepare", {"consoleMode"}, {}),
    Check("flush"),
    Step("readCancel", {"readCancel"}, {}),
    Step("writeCancel", {"writeCancel"}, {"readCancel"})>>

(* Mutant: the pipe of one direction is not closed.                          *)
ReadSideOnly == {"kQueue"} \cup ReadPipe

KqueueCloses == {"kQueue"} \cup Pipes

ConsoleCloses == Events \cup {"consoleMode", "conin"}

(* What the Close of each backend closes beside the wrapped object.          *)
Releases ==
  [epoll |-> Epolls \cup Pipes, select |-> Pipes,
   kqueue |-> KqueueCloses, deadline |-> {},
   overlapped |-> Events, reopened |-> Events \cup {"overlapped"}, pipe |-> {},
   console |-> ConsoleCloses, reader |-> ConsoleCloses,
   writer |-> Events \cup {"conout"}, both |-> ConsoleCloses \cup {"conout"}]

(* Console(): a reader, and its Close when CONOUT$ cannot be opened.         *)
Console ==
  Append(OpenConsoleReader, Step("conout", {"conout"}, ConsoleCloses))

Steps ==
  [epoll |-> NewEpollIO, select |-> NewSelectIO, kqueue |-> NewKqueueIO,
   deadline |-> WrapDeadliner, overlapped |-> NewWinOverlappedIO,
   reopened |-> ReopenedIO, pipe |-> << >>, console |-> NewWinConsoleIO,
   reader |-> OpenConsoleReader, writer |-> OpenConsoleWriter, both |-> Console]

-----------------------------------------------------------------------------
Wraps(kinds, plans, objects) == [kind: kinds, plan: plans, object: objects]

(* The connections: without a descriptor only deadlines are tried.           *)
Conns(plans) ==
  Wraps({"conn"}, plans, {"open"}) \cup Wraps({"conn"}, {<<"deadline">>}, {"open", "shut"})

(* The descriptors: os.NewFile refuses a negative number.                    *)
Descriptors(plans) ==
  Wraps({"fd"}, plans, {"open"}) \cup Wraps({"fd"}, {<< >>}, {"shut"})

Linux ==
  LET plans == {<<"epoll", "select", "deadline">>} IN
    Wraps({"file"}, plans, {"open", "shut"}) \cup Conns(plans)
      \cup Descriptors({<<"epoll">>})

(* A terminal is not given to kqueue.                                        *)
BSD ==
  LET all == {<<"kqueue", "select", "deadline">>}
      plans == all \cup {<<"select", "deadline">>}
  IN  Wraps({"file"}, plans, {"open"}) \cup Wraps({"file"}, all, {"shut"})
        \cup Conns(all) \cup Descriptors(plans)

Solaris ==
  LET plans == {<<"select", "deadline">>} IN
    Wraps({"file"}, plans, {"open", "shut"}) \cup Conns(plans) \cup Descriptors(plans)

Others == Wraps({"file", "conn"}, {<<"deadline">>}, {"open", "shut"})

Windows ==
  LET plans == {<<"console">>, <<"overlapped">>, <<"reopened", "pipe">>, <<"deadline">>} IN
    Wraps({"file"}, plans, {"open", "shut"}) \cup Conns({<<"deadline">>})
      \cup Descriptors(plans)
      \cup Wraps({"console"}, {<<"console">>, <<"reader">>, <<"writer">>, << >>}, {"open"})
      \cup Wraps({"console"}, {<<"both">>}, {"none"})

Calls == Linux \cup BSD \cup Solaris \cup Others \cup Windows

Init ==
  /\ call \in Calls
  /\ plan = call.plan
  /\ object = call.object
  /\ at = 1
  /\ held = {} /\ stray = {} /\ failed = {}
  /\ result = "none"

-----------------------------------------------------------------------------
Trying == result = "none" /\ plan # << >>

InStep == Trying /\ at <= Len(Steps[plan[1]])

Current == Steps[plan[1]][at]

(* A closed object shows in its descriptor, -1, and in its deadline.         *)
MayPass == object # "shut" \/ Current.name \notin {"descriptor", "range", "deadline", "fileType", "isConsole"}

MayFail == object = "shut" \/ Current.name \notin {"descriptor", "isConsole"}

Pass ==
  /\ InStep /\ MayPass
  /\ held' = held \cup Current.opens
  /\ at' = at + 1
  /\ UNCHANGED <<call, plan, stray, object, failed, result>>

(* The constructors to try instead.  newWinOverlappedIO has another backend  *)
(* for a handle that cannot be reopened, and none for its other errors.      *)
Fallback ==
  IF plan[1] = "reopened" /\ Current.name # "reopen" THEN << >> ELSE Tail(plan)

Fail ==
  /\ InStep /\ MayFail
  /\ failed' = failed \cup {<<plan[1], Current.name>>}
  /\ stray' = stray \cup (held \ Current.undo)
  /\ held' = {}
  /\ object' = IF "object" \in Current.undo THEN "closed" ELSE object
  /\ plan' = Fallback
  /\ at' = 1
  /\ UNCHANGED <<call, result>>

Return ==
  /\ Trying /\ ~ InStep
  /\ result' = plan[1]
  /\ UNCHANGED <<call, plan, at, held, stray, object, failed>>

GiveUp ==
  /\ result = "none" /\ plan = << >>
  /\ result' = "failed"
  /\ UNCHANGED <<call, plan, at, held, stray, object, failed>>

(* Close of the backend; a console that ctxio opened itself is not the       *)
(* object that was passed.                                                   *)
Close ==
  /\ result \notin {"none", "failed", "closed"}
  /\ held' = held \ Releases[result]
  /\ object' = IF result \in {"reader", "writer", "both"} THEN object ELSE "closed"
  /\ result' = "closed"
  /\ UNCHANGED <<call, plan, at, stray, failed>>

(* WrapFd and WrapHandle made an *os.File of the number they were given, and *)
(* nobody refers to it after an error.                                       *)
Dropped == result = "failed" /\ call.kind = "fd" /\ call.plan # << >>

(* The garbage collector runs the finalizers.                                *)
Collect ==
  /\ stray \cap Files # {} \/ (Dropped /\ object = "open")
  /\ stray' = stray \ Files
  /\ object' = IF Dropped THEN "closed" ELSE object
  /\ UNCHANGED <<call, plan, at, held, failed, result>>

Next == Pass \/ Fail \/ Return \/ GiveUp \/ Close \/ Collect

Spec == Init /\ [][Next]_vars

-----------------------------------------------------------------------------
(* The error paths that leave a handle, or the console's mode, behind for    *)
(* good (ctxio_windows_console.go:73-95 and 155-183), and those that close   *)
(* the caller's handle (ctxio_windows_overlapped.go:50-62).                  *)
Careless ==
  ({"console", "reader", "both"} \X ({"flush"} \cup Events))
    \cup {<<"console", "prepare">>} \cup ({"overlapped"} \X Events)

(***************************************************************************)
(* Whatever fails and whatever is tried next, nothing stays open that only *)
(* the failed constructor knew, and the caller keeps its object: but for   *)
(* the paths of Careless, for pipes, which their finalizers close          *)
(* (ctxio_select.go:39-42), and for a descriptor that WrapFd took and      *)
(* dropped (ctxio_linux.go:85-90).                                         *)
(***************************************************************************)
FailuresCleanUp ==
  failed \cap Careless = {} =>
    /\ stray \subseteq Files
    /\ object = "closed" => result = "closed" \/ Dropped

(***************************************************************************)
(* A Close closes all that its backend was built from, whichever backend   *)
(* the fallbacks came to, and the object that the caller passed.           *)
(***************************************************************************)
CloseReleasesAll ==
  result = "closed" =>
    /\ held = {}
    /\ object = "open" => call.kind = "console"
=============================================================================
