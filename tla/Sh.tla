--------------------------------- MODULE Sh ---------------------------------
(***************************************************************************)
(* The shell, sh.c: its loop, runcmd() in the processes it forks, and the  *)
(* pipes between the programs they become.                                 *)
(*                                                                         *)
(* What the kernel does for it is here as far as sh.c can see it: fork(),  *)
(* exit() and wait(), descriptors (the lowest free one is taken), pipes of *)
(* Cap bytes that are empty for good when no writer is left.  A sequence   *)
(* of close() and dup() is one step.  A program reads its standard input   *)
(* to the end and writes what it reads, or ends before.                    *)
(***************************************************************************)
EXTENDS ShParse, FiniteSets, FiniteSetsExt

CONSTANTS
  NPROC, NOFILE, NPIPE,
  Cap,       \* bytes in a pipe: PIPESIZE
  Output,    \* bytes that a program writes whose input is no pipe
  Scripts    \* lines that are typed, and the descriptors the shell starts with

ASSUME ShAssumption ==
  /\ NPROC \in Nat \ {0} /\ NOFILE \in Nat /\ NOFILE > 3 /\ NPIPE \in Nat
  /\ Cap \in Nat \ {0} /\ Output \in Nat /\ MAXARGS \in Nat \ {0}
  /\ \A s \in Scripts : s.open \subseteq 0 .. 2

Procs == 1 .. NPROC
Fds == 0 .. NOFILE - 1
Pipes == 1 .. NPIPE
Shell == 1
InitProc == 0
Standard == 0 .. 2

VARIABLES
  state, parent,
  pc,        \* per process: where it is in main(), runcmd() or its program
  cmd,       \* per process: the command it runs
  ofile,     \* per process: what its descriptors are
  ends,      \* per process: the array p of runcmd()
  out,       \* per process: bytes its program has still to write
  bytes,     \* per pipe: bytes in it
  script,    \* the lines to come
  loose      \* history: processes that no shell waits for, see Fork1

vars == <<state, parent, pc, cmd, ofile, ends, out, bytes, script, loose>>

Closed == [kind |-> "closed", pipe |-> 0]
Console == [kind |-> "console", pipe |-> 0]
File == [kind |-> "file", pipe |-> 0]
ReadEnd(k) == [kind |-> "read", pipe |-> k]
WriteEnd(k) == [kind |-> "write", pipe |-> k]
AllClosed == [f \in Fds |-> Closed]

\* A shell may be started with less than three descriptors.
Init ==
  /\ state = [p \in Procs |-> IF p = Shell THEN "live" ELSE "free"]
  /\ parent = [p \in Procs |-> InitProc]
  /\ pc = [p \in Procs |-> IF p = Shell THEN "main" ELSE "none"]
  /\ cmd = [p \in Procs |-> NoCmd]
  /\ \E s \in Scripts :
       /\ script = s.lines
       /\ ofile = [p \in Procs |-> [f \in Fds |-> IF p = Shell /\ f \in s.open THEN Console ELSE Closed]]
  /\ ends = [p \in Procs |-> <<0, 0>>]
  /\ out = [p \in Procs |-> 0] /\ bytes = [k \in Pipes |-> 0]
  /\ loose = {}

Live(p) == state[p] = "live"
At(p, l) == Live(p) /\ pc[p] = l
Goto(p, l) == pc' = [pc EXCEPT ![p] = l]

-----------------------------------------------------------------------------
(* Descriptors *)

FreeFds(t) == {f \in Fds : t[f] = Closed}

\* open() and dup(): the lowest free descriptor.
Opened(t, file) == [t EXCEPT ![Min(FreeFds(t))] = file]
Close(t, fds) == [f \in Fds |-> IF f \in fds THEN Closed ELSE t[f]]
Has(p, file) == Live(p) /\ \E f \in Fds : ofile[p][f] = file

Readers(k) == {p \in Procs : Has(p, ReadEnd(k))}
Writers(k) == {p \in Procs : Has(p, WriteEnd(k))}
FreePipes == {k \in Pipes : Readers(k) \cup Writers(k) = {}}

-----------------------------------------------------------------------------
(* fork1(), exit(), wait() *)

FreeProcs == {p \in Procs : state[p] = "free"}
Children(p) == {q \in Procs : state[q] # "free" /\ parent[q] = p}

\* exit(): descriptors are closed, children become init's, who reaps them.
Exit(p) ==
  /\ state' = [q \in Procs |->
       CASE q = p -> IF parent[p] = InitProc THEN "free" ELSE "zombie"
         [] parent[q] = p /\ state[q] = "zombie" -> "free"
         [] OTHER -> state[q]]
  /\ parent' = [q \in Procs |-> IF parent[q] = p THEN InitProc ELSE parent[q]]
  /\ Goto(p, "none")
  /\ cmd' = [cmd EXCEPT ![p] = NoCmd]
  /\ ofile' = [ofile EXCEPT ![p] = AllClosed]
  /\ ends' = [ends EXCEPT ![p] = <<0, 0>>]
  /\ out' = [out EXCEPT ![p] = 0]

\* fork1(): the child goes on at c with command sub, the parent at l.
Fork(p, l, c, sub) ==
  LET q == Min(FreeProcs)
  IN /\ FreeProcs # {}
     /\ state' = [state EXCEPT ![q] = "live"]
     /\ parent' = [parent EXCEPT ![q] = p]
     /\ pc' = [pc EXCEPT ![p] = l, ![q] = c]
     /\ cmd' = [cmd EXCEPT ![q] = sub]
     /\ ofile' = [ofile EXCEPT ![q] = ofile[p]]
     /\ ends' = [ends EXCEPT ![q] = ends[p]]
     /\ loose' = IF p \in loose \/ cmd[p].type = "BACK" THEN loose \cup {q} ELSE loose \ {q}
     /\ UNCHANGED out

\* fork() fails, for want of a slot or of memory: panic("fork").  The children that
\* were to be waited for are left alone.
ForkPanic(p) == Exit(p) /\ loose' = loose \cup Children(p)

Fork1(p, l, c, sub) == (Fork(p, l, c, sub) \/ ForkPanic(p)) /\ UNCHANGED <<bytes, script>>

Exits(p) == Exit(p) /\ UNCHANGED <<bytes, script, loose>>

\* wait(): reaps a child, if there is one; sleeps while all of them run.
Reap(p) ==
  \/ Children(p) = {} /\ UNCHANGED state
  \/ \E q \in Children(p) : state[q] = "zombie" /\ state' = [state EXCEPT ![q] = "free"]

Wait(p, l) == Reap(p) /\ Goto(p, l) /\ UNCHANGED <<parent, ofile, ends, out, bytes, loose>>

-----------------------------------------------------------------------------
(* main() *)

Missing(t) == {f \in Standard : t[f] = Closed}

\* open("console") takes the lowest free descriptor each time, until it returns 3,
\* which is closed again, or fails.
ThreeOpen(t) ==
  {[f \in Fds |-> IF f \in Missing(t) /\ f < n THEN Console ELSE t[f]] : n \in Missing(t) \cup {3}}

Main ==
  /\ At(Shell, "main")
  /\ \E t \in ThreeOpen(ofile[Shell]) : ofile' = [ofile EXCEPT ![Shell] = t]
  /\ Goto(Shell, "prompt")
  /\ UNCHANGED <<state, parent, cmd, ends, out, bytes, script, loose>>

\* getcmd() finds no line: the end of the input, or no input.
NoLine == script = <<>> \/ ofile[Shell][0] = Closed

\* A line, and a child for it; else exit().
Getcmd ==
  /\ At(Shell, "prompt")
  /\ \/ NoLine /\ Exits(Shell)
     \/ ~NoLine /\ Head(script) # <<"cd">> /\ Fork1(Shell, "wait", "parse", NoCmd)

\* chdir() in the shell itself.
Cd ==
  /\ At(Shell, "prompt") /\ ~NoLine /\ Head(script) = <<"cd">>
  /\ script' = Tail(script)
  /\ UNCHANGED <<state, parent, pc, cmd, ofile, ends, out, bytes, loose>>

MainWait ==
  /\ At(Shell, "wait")
  /\ Wait(Shell, "prompt")
  /\ script' = Tail(script)
  /\ UNCHANGED cmd

-----------------------------------------------------------------------------
(* The child: runcmd(parsecmd(buf)) *)

Parse(p) ==
  /\ At(p, "parse")
  /\ \/ \E c \in parsecmd(Head(script)) :
          /\ cmd' = [cmd EXCEPT ![p] = c] /\ Goto(p, "run")
          /\ UNCHANGED <<state, parent, ofile, ends, out, bytes, script, loose>>
     \/ parsecmd(Head(script)) = {} /\ Exits(p)

Runs(p, type) == At(p, "run") /\ cmd[p].type = type

\* exec() fails, or the program starts; without a word there is none.
RunExec(p) ==
  /\ Runs(p, "EXEC")
  /\ \/ Exits(p)
     \/ /\ cmd[p].argc > 0
        /\ Goto(p, "program")
        /\ cmd' = [cmd EXCEPT ![p] = NoCmd]
        /\ ends' = [ends EXCEPT ![p] = <<0, 0>>]
        /\ out' = [out EXCEPT ![p] = IF ofile[p][0].kind = "read" THEN 0 ELSE Output]
        /\ UNCHANGED <<state, parent, ofile, bytes, script, loose>>

\* close(rcmd->fd); open() takes its place, or fails.
RunRedir(p) ==
  /\ Runs(p, "REDIR")
  /\ \/ Exits(p)
     \/ /\ ofile' = [ofile EXCEPT ![p] = Opened(Close(@, {cmd[p].fd}), File)]
        /\ cmd' = [cmd EXCEPT ![p] = cmd[p].cmd]
        /\ UNCHANGED <<state, parent, pc, ends, out, bytes, script, loose>>

RunList(p) == Runs(p, "LIST") /\ Fork1(p, "list", "run", cmd[p].left)

ListRight(p) ==
  /\ At(p, "list")
  /\ Wait(p, "run")
  /\ cmd' = [cmd EXCEPT ![p] = cmd[p].right]
  /\ UNCHANGED script

\* exit() follows at once: the child is init's.
RunBack(p) == Runs(p, "BACK") /\ Fork1(p, "end", "run", cmd[p].cmd)

End(p) == At(p, "end") /\ Exits(p)

\* p[0] is for reading, p[1] for writing.
PipeEnds(t, u) == <<Min(FreeFds(t)), Min(FreeFds(u))>>

\* pipe(p): two descriptors; panic("pipe").
RunPipe(p) ==
  LET k == Min(FreePipes)
      t == Opened(ofile[p], ReadEnd(k))
  IN /\ Runs(p, "PIPE")
     /\ \/ Exits(p)
        \/ /\ FreePipes # {} /\ Cardinality(FreeFds(ofile[p])) > 1
           /\ ofile' = [ofile EXCEPT ![p] = Opened(t, WriteEnd(k))]
           /\ ends' = [ends EXCEPT ![p] = PipeEnds(ofile[p], t)]
           /\ bytes' = [bytes EXCEPT ![k] = 0]
           /\ Goto(p, "fork left")
           /\ UNCHANGED <<state, parent, cmd, out, script, loose>>

ForkLeft(p) == At(p, "fork left") /\ Fork1(p, "fork right", "left", cmd[p].left)
ForkRight(p) == At(p, "fork right") /\ Fork1(p, "close", "right", cmd[p].right)

\* dup(fd), which fails if fd is closed.
Dup(t, fd) == IF t[fd] = Closed THEN t ELSE Opened(t, t[fd])

\* close(fd); dup(p[i]); and the two descriptors of the pipe are closed, whatever
\* they are by now: without a descriptor 1 or 2 a pipe may be lost.
Moved(t, e, fd, i) == Close(Dup(Close(t, {fd}), e[i]), {e[1], e[2]})

Side(p, l, fd, i) ==
  /\ At(p, l)
  /\ ofile' = [ofile EXCEPT ![p] = Moved(@, ends[p], fd, i)]
  /\ Goto(p, "run")
  /\ UNCHANGED <<state, parent, cmd, ends, out, bytes, script, loose>>

Left(p) == Side(p, "left", 1, 2)
Right(p) == Side(p, "right", 0, 1)

\* Mutant: the shell in the middle keeps the write end.
ParentClosesOne(e) == {e[1]}

ParentCloses(e) == {e[1], e[2]}

PipeClose(p) ==
  /\ At(p, "close")
  /\ ofile' = [ofile EXCEPT ![p] = Close(@, ParentCloses(ends[p]))]
  /\ Goto(p, "wait left")
  /\ UNCHANGED <<state, parent, cmd, ends, out, bytes, script, loose>>

\* Mutant: one wait() for two children.
NextWaitNone == "end"

NextWait == "wait right"

PipeWait(p) ==
  /\ \/ At(p, "wait left") /\ Wait(p, NextWait)
     \/ At(p, "wait right") /\ Wait(p, "end")
  /\ UNCHANGED <<cmd, script>>

-----------------------------------------------------------------------------
(* The programs *)

Stdin(p) == ofile[p][0]
Stdout(p) == ofile[p][1]

\* read() of a byte, which will be written.
Read(p) ==
  LET k == Stdin(p).pipe
  IN /\ At(p, "program") /\ out[p] = 0 /\ Stdin(p).kind = "read" /\ bytes[k] > 0
     /\ bytes' = [bytes EXCEPT ![k] = @ - 1]
     /\ out' = [out EXCEPT ![p] = 1]
     /\ UNCHANGED <<state, parent, pc, cmd, ofile, ends, script, loose>>

\* read() returns 0: nobody has the write end.  Other input has an end as well.
ReadEof(p) ==
  /\ At(p, "program") /\ out[p] = 0
  /\ Stdin(p).kind = "read" => bytes[Stdin(p).pipe] = 0 /\ Writers(Stdin(p).pipe) = {}
  /\ Exits(p)

\* write(): waits while the pipe is full, fails when nobody has the read end.
Write(p) ==
  LET k == Stdout(p).pipe
  IN /\ At(p, "program") /\ out[p] > 0
     /\ \/ /\ Stdout(p).kind = "write" /\ Readers(k) # {} /\ bytes[k] < Cap
           /\ bytes' = [bytes EXCEPT ![k] = @ + 1]
           /\ out' = [out EXCEPT ![p] = @ - 1]
           /\ UNCHANGED <<state, parent, pc, cmd, ofile, ends, script, loose>>
        \/ Stdout(p).kind = "write" /\ Readers(k) = {} /\ Exits(p)
        \/ /\ Stdout(p).kind # "write"
           /\ out' = [out EXCEPT ![p] = @ - 1]
           /\ UNCHANGED <<state, parent, pc, cmd, ofile, ends, bytes, script, loose>>

\* A program may end before its input does.
Quit(p) == At(p, "program") /\ Exits(p)

Program(p) == Read(p) \/ ReadEof(p) \/ Write(p)

RunCmd(p) ==
  \/ Parse(p)
  \/ RunExec(p) \/ RunRedir(p) \/ RunBack(p) \/ End(p)
  \/ RunList(p) \/ ListRight(p)
  \/ RunPipe(p) \/ ForkLeft(p) \/ ForkRight(p) \/ Left(p) \/ Right(p) \/ PipeClose(p) \/ PipeWait(p)

ShellStep == Main \/ Getcmd \/ Cd \/ MainWait

Done == (\A p \in Procs : state[p] = "free") /\ UNCHANGED vars

Next ==
  \/ ShellStep
  \/ \E p \in Procs : RunCmd(p) \/ Program(p) \/ Quit(p)
  \/ Done

\* Every process goes on.
Spec ==
  /\ Init /\ [][Next]_vars
  /\ WF_vars(ShellStep) /\ \A p \in Procs : WF_vars(RunCmd(p)) /\ WF_vars(Program(p))

-----------------------------------------------------------------------------
(* What the shell promises *)

\* States and descriptors; the pipe's descriptors in ends are those of a pipe.
TypeOK ==
  /\ state \in [Procs -> {"free", "live", "zombie"}]
  /\ parent \in [Procs -> Procs \cup {InitProc}]
  /\ \A p \in Procs, f \in Fds : ofile[p][f].kind \in {"closed", "console", "file", "read", "write"}
  /\ \A p \in Procs : pc[p] \in {"fork left", "fork right", "left", "right", "close"} =>
       ofile[p][ends[p][1]].kind = "read" /\ ofile[p][ends[p][2]].kind = "write"
  /\ bytes \in [Pipes -> 0 .. Cap] /\ out \in [Procs -> 0 .. Output + 1]
  /\ loose \subseteq Procs

\* A program has standard descriptors only, an input, an output and the console for
\* errors, whatever pipes and redirections are around it.
StandardDescriptors ==
  \A p \in Procs : At(p, "program") =>
    /\ {f \in Fds : ofile[p][f] # Closed} \subseteq Standard
    /\ ofile[p][0].kind # "write" /\ ofile[p][1].kind # "read" /\ ofile[p][2] \in {Console, Closed}

\* A command in the foreground has come to an end, with all of its processes,
\* when the shell prompts, when the next command of a list begins and when a shell
\* exits.  Only background commands, and what fork1() leaves behind when it fails
\* half-way through a pipe, are not waited for.
ForegroundDone ==
  /\ \A p \in Procs : At(p, "prompt") \/ At(p, "run") \/ At(p, "program") =>
       \A q \in Procs : state[q] # "free" /\ parent[q] = p => q \in loose
  /\ \A q \in Procs \ {Shell} : Live(q) /\ parent[q] = InitProc => q \in loose

\* parsecmd() gives the one command that the grammar gives, and stops at a line that
\* is none: no token is lost, none is read twice.
ParsesGrammar ==
  \A p \in Procs : At(p, "parse") =>
    parsecmd(Head(script)) = Line(Head(script), 1, Len(Head(script)))

\* Every command ends, if its programs end at the end of their input: readers see
\* the end of a pipe, because nobody else has kept it open, and writers do not
\* wait for a reader that is gone.
CommandsEnd == \A p \in Procs \ {Shell} : state[p] = "live" ~> state[p] # "live"
=============================================================================
