------------------------------ MODULE WrapProofs ------------------------------
(***************************************************************************)
(* Proofs about Wrap.  What an error path has to close is a matter of the  *)
(* constructor alone: whatever a step opens, every later step closes when  *)
(* it fails, and Close releases (Tidy, one lemma for each constructor).    *)
(* From that, the order in which the constructors are tried, and what is   *)
(* tried after which, do not matter.                                       *)
(***************************************************************************)
EXTENDS Wrap, SequenceTheorems, TLAPS

Constructors == {"epoll", "select", "kqueue", "deadline", "overlapped",
                 "reopened", "pipe", "console", "reader", "writer", "both"}

(* The consoles that ctxio opens itself.                                     *)
Own == {"reader", "writer", "both"}

(* What a failure of step i leaves open, or closes of the caller's.          *)
Undone(k, i) ==
  /\ "object" \notin Steps[k][i].undo
  /\ \A j \in 1..(i - 1) :
       Steps[k][j].opens \subseteq Files \cup Steps[k][i].undo

Tidy(k) ==
  /\ Len(Steps[k]) \in Nat
  /\ \A i \in 1..Len(Steps[k]) :
       /\ Steps[k][i].opens \subseteq Releases[k]
       /\ <<k, Steps[k][i].name>> \in Careless \/ Undone(k, i)

-----------------------------------------------------------------------------
(* What has to be seen of a constructor of n steps.                          *)
LEMMA TidyIf ==
  ASSUME NEW k \in Constructors, NEW n \in Nat,
         Len(Steps[k]) = n,
         \A i \in 1..n : Steps[k][i].opens \subseteq Releases[k],
         \A i \in 1..n : <<k, Steps[k][i].name>> \in Careless \/ Undone(k, i)
  PROVE  Tidy(k)
BY DEF Tidy

LEMMA EpollTidy == Tidy("epoll")
<1>t. Steps["epoll"] = NewEpollIO
  BY DEF Steps
<1>1. Len(NewEpollIO) = 9
  BY DEF NewEpollIO
<1>2. \A i \in 1..9 : NewEpollIO[i].opens \subseteq Releases["epoll"]
  BY DEF Releases, KqueueCloses, ConsoleCloses, Events, Step, Check,
         NewEpollIO, Epolls, Pipes, ReadPipe, WritePipe
<1>3. \A i \in 1..9 : Undone("epoll", i)
  BY <1>t DEF Undone, Files, Step, Check, NewEpollIO, Epolls, Pipes, ReadPipe,
         WritePipe
<1> QED BY <1>t, <1>1, <1>2, <1>3, TidyIf DEF Constructors

LEMMA SelectTidy == Tidy("select")
<1>t. Steps["select"] = NewSelectIO
  BY DEF Steps
<1>1. Len(NewSelectIO) = 4
  BY DEF NewSelectIO
<1>2. \A i \in 1..4 : NewSelectIO[i].opens \subseteq Releases["select"]
  BY DEF Releases, KqueueCloses, ConsoleCloses, Events, Step, Check,
         NewSelectIO, Pipes, ReadPipe, WritePipe
<1>3. \A i \in 1..4 : Undone("select", i)
  BY <1>t DEF Undone, Files, Step, Check, NewSelectIO, Pipes, ReadPipe,
         WritePipe
<1> QED BY <1>t, <1>1, <1>2, <1>3, TidyIf DEF Constructors

LEMMA KqueueTidy == Tidy("kqueue")
<1>t. Steps["kqueue"] = NewKqueueIO
  BY DEF Steps
<1>1. Len(NewKqueueIO) = 4
  BY DEF NewKqueueIO
<1>2. \A i \in 1..4 : NewKqueueIO[i].opens \subseteq Releases["kqueue"]
  BY DEF Releases, KqueueCloses, ConsoleCloses, Events, Step, Check,
         NewKqueueIO, Pipes, ReadPipe, WritePipe
<1>3. \A i \in 1..4 : Undone("kqueue", i)
  BY <1>t DEF Undone, Files, Step, Check, NewKqueueIO, Pipes, ReadPipe,
         WritePipe
<1> QED BY <1>t, <1>1, <1>2, <1>3, TidyIf DEF Constructors

LEMMA DeadlineTidy == Tidy("deadline")
<1>t. Steps["deadline"] = WrapDeadliner
  BY DEF Steps
<1>1. Len(WrapDeadliner) = 1
  BY DEF WrapDeadliner
<1>2. \A i \in 1..1 : WrapDeadliner[i].opens \subseteq Releases["deadline"]
  BY DEF Releases, KqueueCloses, ConsoleCloses, Events, Step, Check,
         WrapDeadliner
<1>3. \A i \in 1..1 : Undone("deadline", i)
  BY <1>t DEF Undone, Files, Step, Check, WrapDeadliner
<1> QED BY <1>t, <1>1, <1>2, <1>3, TidyIf DEF Constructors

LEMMA ConsoleTidy == Tidy("console")
<1>t. Steps["console"] = NewWinConsoleIO
  BY DEF Steps
<1>1. Len(NewWinConsoleIO) = 6
  BY DEF NewWinConsoleIO
<1>2. \A i \in 1..6 : NewWinConsoleIO[i].opens \subseteq Releases["console"]
  BY DEF Releases, KqueueCloses, ConsoleCloses, Events, Step, Check,
         NewWinConsoleIO, Pipes, ReadPipe, WritePipe
<1>3. \A i \in 1..6 : <<"console", Steps["console"][i].name>> \in Careless
                       \/ Undone("console", i)
  BY <1>t DEF Undone, Files, Careless, Events, Step, Check, NewWinConsoleIO,
         Pipes, ReadPipe, WritePipe
<1> QED BY <1>t, <1>1, <1>2, <1>3, TidyIf DEF Constructors

LEMMA ReaderTidy == Tidy("reader")
<1>t. Steps["reader"] = OpenConsoleReader
  BY DEF Steps
<1>1. Len(OpenConsoleReader) = 5
  BY DEF OpenConsoleReader
<1>2. \A i \in 1..5 : OpenConsoleReader[i].opens \subseteq Releases["reader"]
  BY DEF Releases, KqueueCloses, ConsoleCloses, Events, Step, Check,
         OpenConsoleReader, Pipes, ReadPipe, WritePipe
<1>3. \A i \in 1..5 : <<"reader", Steps["reader"][i].name>> \in Careless
                       \/ Undone("reader", i)
  BY <1>t DEF Undone, Files, Careless, Events, Step, Check, OpenConsoleReader,
         Pipes, ReadPipe, WritePipe
<1> QED BY <1>t, <1>1, <1>2, <1>3, TidyIf DEF Constructors

LEMMA WriterTidy == Tidy("writer")
<1>t. Steps["writer"] = OpenConsoleWriter
  BY DEF Steps
<1>1. Len(OpenConsoleWriter) = 3
  BY DEF OpenConsoleWriter
<1>2. \A i \in 1..3 : OpenConsoleWriter[i].opens \subseteq Releases["writer"]
  BY DEF Releases, KqueueCloses, ConsoleCloses, Events, Step, Check,
         OpenConsoleWriter, Pipes, ReadPipe, WritePipe
<1>3. \A i \in 1..3 : Undone("writer", i)
  BY <1>t DEF Undone, Files, Step, Check, OpenConsoleWriter, Pipes, ReadPipe,
         WritePipe
<1> QED BY <1>t, <1>1, <1>2, <1>3, TidyIf DEF Constructors

LEMMA PipeTidy == Tidy("pipe")
<1>1. Steps["pipe"] = << >> /\ Len(Steps["pipe"]) = 0
  BY DEF Steps
<1> QED BY <1>1, TidyIf DEF Constructors

(* The events come after the checks, and CONOUT$ after the reader.           *)
LEMMA OverlappedSteps ==
  /\ Len(NewWinOverlappedIO) = 4
  /\ NewWinOverlappedIO[1] = Check("fileType")
  /\ NewWinOverlappedIO[2] = Check("mode")
  /\ NewWinOverlappedIO[3] = Step("readCancel", {"readCancel"}, {"object"})
  /\ NewWinOverlappedIO[4] =
       Step("writeCancel", {"writeCancel"}, {"object", "readCancel"})
BY DEF NewWinOverlappedIO, CreateEvents

LEMMA ReopenedSteps ==
  /\ Len(ReopenedIO) = 5
  /\ ReopenedIO[1] = Check("fileType")
  /\ ReopenedIO[2] = Check("mode")
  /\ ReopenedIO[3] = Step("reopen", {"overlapped"}, {})
  /\ ReopenedIO[4] = Step("readCancel", {"readCancel"}, {"overlapped"})
  /\ ReopenedIO[5] =
       Step("writeCancel", {"writeCancel"}, {"overlapped", "readCancel"})
BY DEF ReopenedIO, CreateEvents

LEMMA ConsoleSteps ==
  /\ Len(Console) = 6
  /\ \A i \in 1..5 : Console[i] = OpenConsoleReader[i]
  /\ Console[6] = Step("conout", {"conout"}, ConsoleCloses)
BY DEF Console, OpenConsoleReader

LEMMA OverlappedTidy == Tidy("overlapped")
<1>t. Steps["overlapped"] = NewWinOverlappedIO
  BY DEF Steps
<1>2. \A i \in 1..4 : NewWinOverlappedIO[i].opens \subseteq Releases["overlapped"]
  BY OverlappedSteps DEF Releases, Events, ConsoleCloses, Step, Check
<1>3. \A i \in 1..4 : <<"overlapped", NewWinOverlappedIO[i].name>> \in Careless
                       \/ Undone("overlapped", i)
  BY <1>t, OverlappedSteps DEF Undone, Files, Careless, Events, Step, Check
<1> QED BY <1>t, <1>2, <1>3, OverlappedSteps, TidyIf DEF Constructors

LEMMA ReopenedTidy == Tidy("reopened")
<1>t. Steps["reopened"] = ReopenedIO
  BY DEF Steps
<1>2. \A i \in 1..5 : ReopenedIO[i].opens \subseteq Releases["reopened"]
  BY ReopenedSteps DEF Releases, Events, ConsoleCloses, Step, Check
<1>3. \A i \in 1..5 : <<"reopened", ReopenedIO[i].name>> \in Careless
                       \/ Undone("reopened", i)
  BY <1>t, ReopenedSteps DEF Undone, Files, Careless, Events, Step, Check
<1> QED BY <1>t, <1>2, <1>3, ReopenedSteps, TidyIf DEF Constructors

LEMMA BothTidy == Tidy("both")
<1>t. Steps["both"] = Console
  BY DEF Steps
<1>2. \A i \in 1..6 : Console[i].opens \subseteq Releases["both"]
  BY ConsoleSteps DEF Releases, Events, ConsoleCloses, Step, Check,
         OpenConsoleReader
<1>3. \A i \in 1..6 : <<"both", Console[i].name>> \in Careless
                       \/ Undone("both", i)
  BY <1>t, ConsoleSteps DEF Undone, Files, Careless, Events, ConsoleCloses,
         Step, Check, OpenConsoleReader
<1> QED BY <1>t, <1>2, <1>3, ConsoleSteps, TidyIf DEF Constructors

LEMMA AllTidy == \A k \in Constructors : Tidy(k)
BY EpollTidy, SelectTidy, KqueueTidy, DeadlineTidy, OverlappedTidy,
   ReopenedTidy, PipeTidy, ConsoleTidy, ReaderTidy, WriterTidy, BothTidy
   DEF Constructors

-----------------------------------------------------------------------------
(* What the first steps of a constructor have opened.                        *)
Opened(k, i) == UNION {Steps[k][j].opens : j \in 1..(i - 1)}

LEMMA OpenedGrows ==
  ASSUME NEW k \in Constructors, NEW i \in 1..Len(Steps[k])
  PROVE  /\ Opened(k, 1) = {}
         /\ Opened(k, i + 1) = Opened(k, i) \cup Steps[k][i].opens
         /\ Opened(k, i) \subseteq Opened(k, Len(Steps[k]) + 1)
<1>1. Len(Steps[k]) \in Nat
  BY AllTidy DEF Tidy
<1>2. 1..(i + 1 - 1) = 1..(i - 1) \cup {i}
  BY <1>1
<1>3. 1..(i - 1) \subseteq 1..(Len(Steps[k]) + 1 - 1) /\ 1..(1 - 1) = {}
  BY <1>1
<1>4. Opened(k, 1) = {} /\ Opened(k, i) \subseteq Opened(k, Len(Steps[k]) + 1)
  BY <1>3 DEF Opened
<1>5. Opened(k, i + 1) = Opened(k, i) \cup Steps[k][i].opens
  BY <1>2 DEF Opened
<1> QED BY <1>4, <1>5

LEMMA OpenedIsReleased ==
  ASSUME NEW k \in Constructors
  PROVE  Opened(k, Len(Steps[k]) + 1) \subseteq Releases[k]
<1>1. Len(Steps[k]) \in Nat
  BY AllTidy DEF Tidy
<1>2. Len(Steps[k]) + 1 - 1 = Len(Steps[k])
  BY <1>1
<1>3. ASSUME NEW j \in 1..Len(Steps[k]) PROVE Steps[k][j].opens \subseteq Releases[k]
  BY AllTidy DEF Tidy
<1>4. Opened(k, Len(Steps[k]) + 1) = UNION {Steps[k][j].opens : j \in 1..Len(Steps[k])}
  BY <1>2 DEF Opened
<1> QED BY <1>3, <1>4

LEMMA OpenedIsUndone ==
  ASSUME NEW k \in Constructors, NEW i \in 1..Len(Steps[k]), Undone(k, i)
  PROVE  Opened(k, i) \ Steps[k][i].undo \subseteq Files
BY DEF Undone, Opened

(* Who opens a console of its own was asked for one.                         *)
FallbackPlans ==
  {<<"epoll", "select", "deadline">>, <<"kqueue", "select", "deadline">>,
   <<"select", "deadline">>, <<"reopened", "pipe">>, <<"epoll">>,
   <<"deadline">>, <<"console">>, <<"overlapped">>, << >>}

OwnPlans == {<<"reader">>, <<"writer">>, <<"both">>}

LEMMA PlansAreTyped ==
  /\ \A p \in FallbackPlans :
       p \in Seq(Constructors) /\ \A i \in 1..Len(p) : p[i] \notin Own
  /\ OwnPlans \subseteq Seq(Constructors)
<1>a. /\ <<"epoll", "select", "deadline">> \in Seq(Constructors)
      /\ <<"kqueue", "select", "deadline">> \in Seq(Constructors)
  BY DEF Constructors
<1>b. /\ <<"select", "deadline">> \in Seq(Constructors)
      /\ <<"reopened", "pipe">> \in Seq(Constructors)
  BY DEF Constructors
<1>c. /\ <<"epoll">> \in Seq(Constructors) /\ <<"deadline">> \in Seq(Constructors)
      /\ <<"console">> \in Seq(Constructors)
      /\ <<"overlapped">> \in Seq(Constructors)
  BY DEF Constructors
<1>d. << >> \in Seq(Constructors)
  OBVIOUS
<1>1. \A p \in FallbackPlans : p \in Seq(Constructors)
  BY <1>a, <1>b, <1>c, <1>d, Zenon DEF FallbackPlans
<1>2. \A p \in FallbackPlans : \A i \in 1..Len(p) : p[i] \notin Own
  BY DEF FallbackPlans, Own
<1>3. OwnPlans \subseteq Seq(Constructors)
  BY DEF OwnPlans, Constructors
<1> QED BY <1>1, <1>2, <1>3

LEMMA CallsArePlans ==
  ASSUME NEW c \in Calls
  PROVE  /\ c.plan \in Seq(Constructors)
         /\ \A i \in 1..Len(c.plan) : c.plan[i] \in Own => c.kind = "console"
         /\ c.object # "closed"
<1> DEFINE Planned == /\ \/ c.plan \in FallbackPlans
                         \/ c.plan \in OwnPlans /\ c.kind = "console"
                      /\ c.object # "closed"
<1> USE DEF Wraps, Conns, Descriptors, FallbackPlans, OwnPlans
<1>1. CASE c \in Linux
  <2>1. Planned
    BY <1>1 DEF Linux
  <2> QED BY <2>1, PlansAreTyped
<1>2. CASE c \in BSD
  <2>1. Planned
    BY <1>2 DEF BSD
  <2> QED BY <2>1, PlansAreTyped
<1>3. CASE c \in Solaris
  <2>1. Planned
    BY <1>3 DEF Solaris
  <2> QED BY <2>1, PlansAreTyped
<1>4. CASE c \in Others
  <2>1. Planned
    BY <1>4 DEF Others
  <2> QED BY <2>1, PlansAreTyped
<1>5. CASE c \in Windows
  <2>1. Planned
    BY <1>5 DEF Windows
  <2> QED BY <2>1, PlansAreTyped
<1> QED BY <1>1, <1>2, <1>3, <1>4, <1>5 DEF Calls

-----------------------------------------------------------------------------
(* What is open belongs to the constructor that is being tried, or to the    *)
(* backend that was returned; what failed constructors left has a finalizer. *)
HeldInv ==
  /\ plan \in Seq(Constructors) /\ at \in Nat \ {0}
  /\ result \in {"none", "failed", "closed"} \cup Constructors
  /\ result \in {"failed", "closed"} => held = {}
  /\ result = "none" /\ plan = << >> => held = {}
  /\ result = "none" /\ plan # << >> =>
       at <= Len(Steps[plan[1]]) + 1 /\ held = Opened(plan[1], at)
  /\ result \in Constructors => held \subseteq Releases[result]

(* A backend whose object is a console of its own was asked for.             *)
OwnInv ==
  /\ call \in Calls
  /\ \A i \in 1..Len(plan) : plan[i] \in Own => call.kind = "console"
  /\ result \in Own => call.kind = "console"
  /\ result = "closed" /\ object = "open" => call.kind = "console"

WrapInv == HeldInv /\ OwnInv /\ FailuresCleanUp

LEMMA WrapInit == Init => WrapInv
<1> SUFFICES ASSUME Init PROVE WrapInv
  OBVIOUS
<1>1. plan \in Seq(Constructors) /\ call \in Calls /\ object # "closed"
  BY CallsArePlans DEF Init
<1>2. plan # << >> => plan[1] \in Constructors
  BY <1>1
<1>3. plan # << >> => Opened(plan[1], 1) = {} /\ Len(Steps[plan[1]]) \in Nat
  BY <1>2, AllTidy DEF Tidy, Opened
<1>4. "none" \notin Constructors
  BY DEF Constructors
<1>5. HeldInv
  BY <1>1, <1>3, <1>4 DEF HeldInv, Init
<1>6. OwnInv
  BY <1>4, CallsArePlans DEF OwnInv, Init, Own
<1> QED BY <1>1, <1>5, <1>6 DEF WrapInv, FailuresCleanUp, Init

(* The step of the constructor that is being tried.                          *)
LEMMA TriedStep ==
  ASSUME HeldInv, InStep
  PROVE  /\ plan[1] \in Constructors /\ plan # << >>
         /\ at \in 1..Len(Steps[plan[1]])
         /\ held = Opened(plan[1], at)
         /\ Tail(plan) \in Seq(Constructors)
BY AllTidy DEF HeldInv, InStep, Trying

LEMMA FailLeaves ==
  ASSUME HeldInv, Fail
  PROVE  \/ failed' \cap Careless # {}
         \/ held \ Current.undo \subseteq Files /\ object' = object
<1>1. /\ plan[1] \in Constructors /\ at \in 1..Len(Steps[plan[1]])
      /\ held = Opened(plan[1], at)
  BY TriedStep DEF Fail
<1>2. CASE <<plan[1], Current.name>> \in Careless
  BY <1>2 DEF Fail
<1>3. CASE Undone(plan[1], at)
  BY <1>1, <1>3, OpenedIsUndone DEF Fail, Current, Undone
<1> QED BY <1>1, <1>2, <1>3, AllTidy DEF Tidy, Current

LEMMA HeldStep == HeldInv /\ [Next]_vars => HeldInv'
<1> SUFFICES ASSUME HeldInv, [Next]_vars PROVE HeldInv'
  OBVIOUS
<1>n. "none" \notin Constructors /\ "failed" \notin Constructors /\ "closed" \notin Constructors
  BY DEF Constructors
<1>1. CASE Pass
  <2>1. Opened(plan[1], at + 1) = held \cup Current.opens
    BY <1>1, TriedStep, OpenedGrows DEF Pass, Current
  <2>2. /\ plan[1] \in Constructors /\ plan # << >>
        /\ at \in 1..Len(Steps[plan[1]]) /\ Len(Steps[plan[1]]) \in Nat
    BY <1>1, TriedStep, AllTidy DEF Pass, Tidy
  <2> QED BY <1>1, <1>n, <2>1, <2>2 DEF Pass, HeldInv, InStep, Trying
<1>2. CASE Fail
  <2>1. plan' \in Seq(Constructors)
    BY <1>2, TriedStep DEF Fail, Fallback
  <2>2. plan' # << >> =>
          Len(Steps[plan'[1]]) \in Nat /\ Opened(plan'[1], 1) = {}
    BY <2>1, AllTidy DEF Tidy, Opened
  <2> QED BY <1>2, <1>n, <2>1, <2>2 DEF Fail, HeldInv, InStep, Trying
<1>3. CASE Return
  <2>1. plan[1] \in Constructors /\ Len(Steps[plan[1]]) \in Nat
    BY <1>3, AllTidy DEF Return, HeldInv, Trying, Tidy
  <2>2. at = Len(Steps[plan[1]]) + 1
    BY <1>3, <2>1 DEF Return, HeldInv, InStep, Trying
  <2> QED BY <1>3, <1>n, <2>1, <2>2, OpenedIsReleased DEF Return, HeldInv,
         Trying
<1>4. CASE GiveUp
  BY <1>4, <1>n DEF GiveUp, HeldInv
<1>5. CASE Close
  BY <1>5, <1>n DEF Close, HeldInv
<1>6. CASE Collect
  BY <1>6 DEF Collect, HeldInv
<1>7. CASE UNCHANGED vars
  BY <1>7 DEF vars, HeldInv
<1> QED BY <1>1, <1>2, <1>3, <1>4, <1>5, <1>6, <1>7 DEF Next

LEMMA OwnStep == HeldInv /\ OwnInv /\ [Next]_vars => OwnInv'
<1> SUFFICES ASSUME HeldInv, OwnInv, [Next]_vars PROVE OwnInv'
  OBVIOUS
<1>n. {"none", "failed", "closed"} \cap Own = {}
  BY DEF Own
<1>1. CASE Pass \/ GiveUp
  BY <1>1, <1>n DEF Pass, GiveUp, OwnInv
<1>2. CASE Fail
  <2>1. plan \in Seq(Constructors) /\ plan # << >> /\ result = "none"
    BY <1>2 DEF Fail, InStep, Trying, HeldInv
  <2>2. \A i \in 1..Len(Tail(plan)) :
          i + 1 \in 1..Len(plan) /\ Tail(plan)[i] = plan[i + 1]
    BY <2>1
  <2>3. plan' = << >> \/ plan' = Tail(plan)
    BY <1>2 DEF Fail, Fallback
  <2>4. \A i \in 1..Len(plan') : plan'[i] \in Own => call.kind = "console"
    <3>1. CASE plan' = << >>
      BY <3>1
    <3>2. CASE plan' = Tail(plan)
      BY <2>2, <3>2 DEF OwnInv
    <3> QED BY <2>3, <3>1, <3>2
  <2> QED BY <1>2, <1>n, <2>1, <2>4 DEF Fail, OwnInv
<1>3. CASE Return
  <2>1. 1 \in 1..Len(plan)
    BY <1>3 DEF Return, HeldInv, Trying
  <2> QED BY <1>3, <1>n, <2>1 DEF Return, OwnInv, HeldInv, Constructors, Trying
<1>4. CASE Close
  BY <1>4, <1>n DEF Close, OwnInv, Own
<1>5. CASE Collect
  BY <1>5 DEF Collect, OwnInv
<1>6. CASE UNCHANGED vars
  BY <1>6 DEF vars, OwnInv
<1> QED BY <1>1, <1>2, <1>3, <1>4, <1>5, <1>6 DEF Next

LEMMA CleanStep == HeldInv /\ FailuresCleanUp /\ [Next]_vars => FailuresCleanUp'
<1> SUFFICES ASSUME HeldInv, FailuresCleanUp, [Next]_vars PROVE FailuresCleanUp'
  OBVIOUS
<1> USE DEF FailuresCleanUp, Dropped
<1>1. CASE Pass \/ Return \/ GiveUp
  BY <1>1 DEF Pass, Return, GiveUp, InStep, Trying
<1>2. CASE Fail
  <2>1. result = "none" /\ failed \subseteq failed' /\ result' = result
    BY <1>2 DEF Fail, InStep, Trying
  <2> QED BY <1>2, <2>1, FailLeaves DEF Fail
<1>3. CASE Close
  BY <1>3 DEF Close
<1>4. CASE Collect
  BY <1>4 DEF Collect
<1>5. CASE UNCHANGED vars
  BY <1>5 DEF vars
<1> QED BY <1>1, <1>2, <1>3, <1>4, <1>5 DEF Next

LEMMA WrapAlways == Spec => []WrapInv
<1>1. WrapInv /\ [Next]_vars => WrapInv'
  BY HeldStep, OwnStep, CleanStep DEF WrapInv
<1> QED BY <1>1, WrapInit, PTL DEF Spec

(***************************************************************************)
(* On every platform, whichever steps fail and whatever is tried next,     *)
(* only what has a finalizer is left, and the object is the caller's as    *)
(* before, but for the error paths that Careless names                     *)
(* (ctxio_linux.go:93-185 and the constructors of the other backends).     *)
(***************************************************************************)
THEOREM WrapCleansUp == Spec => []FailuresCleanUp
BY WrapAlways, PTL DEF WrapInv

(***************************************************************************)
(* Close releases what the constructor opened, and the object that was     *)
(* passed, whichever constructor the fallbacks came to.                    *)
(***************************************************************************)
THEOREM WrapReleasesAll == Spec => []CloseReleasesAll
<1>1. WrapInv => CloseReleasesAll
  BY DEF WrapInv, HeldInv, OwnInv, CloseReleasesAll
<1> QED BY <1>1, WrapAlways, PTL

=============================================================================
