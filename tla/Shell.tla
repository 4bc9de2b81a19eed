------------------------------- MODULE Shell -------------------------------
(***************************************************************************)
(* The shell of xv6 (sh.c): the parser, and runcmd with the processes,     *)
(* pipes and descriptors it sets up.  fork, pipe, wait, exit and exec are  *)
(* modelled from how sh.c uses them; FilePipe and Proc have the kernel's   *)
(* side of them.                                                           *)
(*                                                                         *)
(* A line is a sequence of tokens.  A process is named by its path from    *)
(* the shell: <<>> is the shell, <<j>> the child that runs the j-th line.  *)
(***************************************************************************)
EXTENDS Integers, Sequences, FiniteSets, SequencesExt, FiniteSetsExt, Functions

CONSTANTS Lines,       \* the lines that may be typed
          Installed,   \* programs that exec finds
          Files,       \* files that open finds or may create
          MAXARGS,
          NOFILE,
          PIPESIZE,
          MaxJobs,     \* bound on the lines typed
          MaxFails     \* bound on failures of fork and pipe

ASSUME ShellAssumption ==
    /\ {MAXARGS, NOFILE, PIPESIZE} \subseteq Nat \ {0}
    /\ NOFILE >= 5   \* the standard descriptors and a pipe

VARIABLES proc,     \* the processes: path -> record
          pipe,     \* the number of bytes in each pipe
          jobs,     \* ghost: the commands of the lines so far, parsed
          failed,   \* ghost: jobs in which a fork or a pipe failed
          fails     \* how many more may fail

vars == <<proc, pipe, jobs, failed, fails>>

(***************************************************************************)
(* Commands and the parser.                                                *)
(***************************************************************************)

execcmd(argv) == [type |-> "EXEC", argv |-> argv]
redircmd(cmd, file, fd) == [type |-> "REDIR", cmd |-> cmd, file |-> file, fd |-> fd]
pipecmd(left, right) == [type |-> "PIPE", left |-> left, right |-> right]
listcmd(left, right) == [type |-> "LIST", left |-> left, right |-> right]
backcmd(cmd) == [type |-> "BACK", cmd |-> cmd]

Symbols == {"<", "|", ">", "+", "&", ";", "(", ")"}

peek(s, toks) == s # <<>> /\ Head(s) \in toks

\* What a parsing function returns: the command and the rest of the line, or the
\* end of the process in panic().
Parsed(cmd, rest) == [ok |-> TRUE, cmd |-> cmd, rest |-> rest]
Syntax == [ok |-> FALSE, cmd |-> execcmd(<<>>), rest |-> <<>>]

\* Goes on with what was parsed, which is bound to a value here, or gives up.
Then(parsed, Go(_)) == CHOOSE r \in {IF p.ok THEN Go(p) ELSE Syntax : p \in {parsed}} : TRUE

\* parseredirs: the redirections at the front of s, in order, and the rest.
RECURSIVE Redirs(_, _)
Redirs(s, redirs) ==
    IF ~peek(s, {"<", ">", "+"}) THEN [ok |-> TRUE, redirs |-> redirs, rest |-> s]
    ELSE IF Len(s) = 1 \/ s[2] \in Symbols THEN [ok |-> FALSE, redirs |-> redirs, rest |-> s]
    ELSE Redirs(SubSeq(s, 3, Len(s)),
                Append(redirs, [file |-> s[2], fd |-> IF s[1] = "<" THEN 0 ELSE 1]))

Wrapped(cmd, redirs) == FoldLeft(LAMBDA c, r : redircmd(c, r.file, r.fd), cmd, redirs)

parseredirs(cmd, s) ==
    LET r == Redirs(s, <<>>)
    IN IF r.ok THEN Parsed(Wrapped(cmd, r.redirs), r.rest) ELSE Syntax

\* The loop of parseexec.  argv is filled in the execcmd the redirections wrap.
RECURSIVE Arguments(_, _, _)
Arguments(s, argv, redirs) ==
    IF s = <<>> \/ peek(s, {"|", ")", "&", ";"}) THEN Parsed(Wrapped(execcmd(argv), redirs), s)
    ELSE IF Head(s) \in Symbols \/ Len(argv) + 1 >= MAXARGS THEN Syntax
    ELSE LET r == Redirs(Tail(s), redirs)
         IN IF r.ok THEN Arguments(r.rest, Append(argv, Head(s)), r.redirs) ELSE Syntax

RECURSIVE parseline(_), parsepipe(_), parseblock(_), Backgrounds(_)

parseblock(s) ==
    LET Close(line) == IF peek(line.rest, {")"}) THEN parseredirs(line.cmd, Tail(line.rest)) ELSE Syntax
    IN Then(parseline(Tail(s)), Close)

parseexec(s) ==
    LET r == Redirs(s, <<>>)
    IN IF peek(s, {"("}) THEN parseblock(s)
       ELSE IF r.ok THEN Arguments(r.rest, <<>>, r.redirs) ELSE Syntax

\* Mutant: a pipeline associates to the left.
RECURSIVE PipeLeft(_)
PipeLeft(left) ==
    IF ~left.ok \/ ~peek(left.rest, {"|"}) THEN left
    ELSE LET right == parseexec(Tail(left.rest))
         IN IF right.ok THEN PipeLeft(Parsed(pipecmd(left.cmd, right.cmd), right.rest)) ELSE Syntax
ParsePipeLeft(s) == PipeLeft(parseexec(s))

parsepipe(s) ==
    LET Right(left) ==
          IF ~peek(left.rest, {"|"}) THEN left
          ELSE Then(parsepipe(Tail(left.rest)), LAMBDA p : Parsed(pipecmd(left.cmd, p.cmd), p.rest))
    IN Then(parseexec(s), Right)

\* The loop of parseline over "&".
Backgrounds(p) ==
    IF peek(p.rest, {"&"}) THEN Backgrounds(Parsed(backcmd(p.cmd), Tail(p.rest))) ELSE p

parseline(s) ==
    LET Right(left) ==
          IF ~peek(left.rest, {";"}) THEN left
          ELSE Then(parseline(Tail(left.rest)), LAMBDA p : Parsed(listcmd(left.cmd, p.cmd), p.rest))
    IN Then(Then(parsepipe(s), Backgrounds), Right)

parsecmd(s) == LET line == parseline(s) IN IF line.ok /\ line.rest = <<>> THEN line ELSE Syntax

(***************************************************************************)
(* Processes and descriptors.                                              *)
(***************************************************************************)

Sh == <<>>

\* What a descriptor refers to: nothing, the console, a file or an end of a pipe.
Ref(kind, of) == [kind |-> kind, of |-> of]
None == Ref("none", <<>>)
Console == Ref("console", <<>>)
File(name) == Ref("file", <<name>>)
Reader(id) == Ref("reader", id)
Writer(id) == Ref("writer", id)

StdFds == [k \in 0 .. NOFILE - 1 |-> IF k < 3 THEN Console ELSE None]

\* dup, open and pipe take the lowest descriptors that are free.
LowestFree(fd) == Min({k \in DOMAIN fd : fd[k] = None})
Opened(fd, ref) == [fd EXCEPT ![LowestFree(fd)] = ref]
Closed(fd, ref) == [k \in DOMAIN fd |-> IF k > 2 /\ fd[k] = ref THEN None ELSE fd[k]]

\* A process: where it is, the command it runs (node is its place in the tree of
\* the line), its descriptors, how often it still waits, how many it forked.
Process(pc, cmd, node, fd) ==
    [pc |-> pc, cmd |-> cmd, node |-> node, fd |-> fd, waits |-> 0, forks |-> 0, byte |-> FALSE]

Live == {p \in DOMAIN proc : proc[p].pc # "zombie"}
Children(p) == {q \in DOMAIN proc : q # Sh /\ Front(q) = p}
\* The processes without a live parent: init has adopted them.
HasParent(p) == p # Sh /\ Front(p) \in Live
Job(p) == p[1]

\* exit: the descriptors are closed, the parent can reap the process; init reaps
\* the zombies the process leaves, and the process if it has no parent.
ExitIn(ps, p) ==
    LET gone == {q \in Children(p) : ps[q].pc = "zombie"} \cup (IF HasParent(p) THEN {} ELSE {p})
    IN [q \in DOMAIN ps \ gone |->
          IF q = p THEN [Process("zombie", execcmd(<<>>), ps[p].node, StdFds) EXCEPT !.fd = [k \in DOMAIN @ |-> None]]
          ELSE ps[q]]

Exit(p) == proc' = ExitIn(proc, p)

\* The process goes on as me and forks a child that starts as kid.
Forked(p, me, kid) ==
    proc' = (Append(p, me.forks + 1) :> kid) @@ [proc EXCEPT ![p] = [me EXCEPT !.forks = @ + 1]]

\* fork1 or pipe fails: panic() ends the process.
Fails(p) ==
    /\ fails > 0
    /\ fails' = fails - 1
    /\ failed' = failed \cup {Job(p)}
    /\ Exit(p)
    /\ UNCHANGED <<pipe, jobs>>

(***************************************************************************)
(* runcmd.                                                                 *)
(***************************************************************************)

Runs(p, type) == proc[p].pc = "run" /\ proc[p].cmd.type = type
Sub(p, cmd, branch) == [proc[p] EXCEPT !.pc = "run", !.cmd = cmd, !.node = Append(@, branch)]
Quiet == UNCHANGED <<pipe, jobs, failed, fails>>

RunExec(p) ==
    LET argv == proc[p].cmd.argv
    IN /\ Runs(p, "EXEC")
       /\ IF argv # <<>> /\ argv[1] \in Installed
          THEN proc' = [proc EXCEPT ![p].pc = "program"]
          ELSE Exit(p)
       /\ Quiet

Redirect(fd, r) == Opened([fd EXCEPT ![r.fd] = None], File(r.file))

RunRedir(p) ==
    LET r == proc[p].cmd
    IN /\ Runs(p, "REDIR")
       /\ IF r.file \in Files
          THEN proc' = [proc EXCEPT ![p] = [Sub(p, r.cmd, "C") EXCEPT !.fd = Redirect(@, r)]]
          ELSE Exit(p)
       /\ Quiet

\* Mutant: the right side is run without waiting.
ListWaitsNot == 0

\* The number of calls of wait() between the two sides of a list.
ListWaits == 1

RunList(p) ==
    /\ Runs(p, "LIST")
    /\ \/ /\ Forked(p, [Sub(p, proc[p].cmd.right, "R") EXCEPT !.pc = "wait", !.waits = ListWaits],
                    [Sub(p, proc[p].cmd.left, "L") EXCEPT !.forks = 0])
          /\ Quiet
       \/ Fails(p)

PipeId(p) == <<Job(p)>> \o proc[p].node

\* pipe() and the first fork.
RunPipe(p) ==
    LET me == [proc[p] EXCEPT !.pc = "second",
                              !.fd = Opened(Opened(@, Reader(PipeId(p))), Writer(PipeId(p)))]
    IN /\ Runs(p, "PIPE")
       /\ \/ /\ Forked(p, me, [me EXCEPT !.pc = "left", !.forks = 0])
             /\ pipe' = (PipeId(p) :> 0) @@ pipe
             /\ UNCHANGED <<jobs, failed, fails>>
          \/ Fails(p)

\* Mutant: the process that waits keeps the writing end.
ParentKeepsWriter(fd, id) == Closed(fd, Reader(id))

\* close(p[0]) and close(p[1]), in the process that waits.
ParentCloses(fd, id) == Closed(Closed(fd, Reader(id)), Writer(id))

RunPipeSecond(p) ==
    LET me == proc[p]
    IN /\ me.pc = "second"
       /\ \/ /\ Forked(p, [me EXCEPT !.pc = "wait", !.waits = 2, !.cmd = execcmd(<<>>),
                                     !.fd = ParentCloses(@, PipeId(p))],
                       [me EXCEPT !.pc = "right", !.forks = 0])
             /\ Quiet
          \/ Fails(p)

\* Mutant: the two sides keep the writing end.
ChildKeepsWriter(fd, id) == Closed(fd, Reader(id))

\* close(p[0]) and close(p[1]), in the two sides.
ChildCloses(fd, id) == Closed(Closed(fd, Reader(id)), Writer(id))

\* close(0) or close(1), dup of an end, and close of both.
PipeChild(p) ==
    LET me == proc[p]
        id == PipeId(p)
        std == IF me.pc = "left" THEN 1 ELSE 0
        end == IF me.pc = "left" THEN Writer(id) ELSE Reader(id)
    IN /\ me.pc \in {"left", "right"}
       /\ proc' = [proc EXCEPT ![p] =
                     [Sub(p, IF me.pc = "left" THEN me.cmd.left ELSE me.cmd.right,
                          IF me.pc = "left" THEN "L" ELSE "R")
                        EXCEPT !.fd = ChildCloses(Opened([@ EXCEPT ![std] = None], end), id)]]
       /\ Quiet

RunBack(p) ==
    /\ Runs(p, "BACK")
    /\ \/ /\ proc' = (Append(p, proc[p].forks + 1) :> [Sub(p, proc[p].cmd.cmd, "B") EXCEPT !.forks = 0])
                        @@ ExitIn(proc, p)
          /\ Quiet
       \/ Fails(p)

Reapable(p) == {q \in Children(p) : proc[q].pc = "zombie"}

\* wait(): reaps a child, or returns -1 if there is none.
Wait(p) ==
    /\ proc[p].pc = "wait" /\ proc[p].waits > 0
    /\ IF Children(p) = {}
       THEN proc' = [proc EXCEPT ![p].waits = @ - 1]
       ELSE \E q \in Reapable(p) :
               proc' = [Restrict(proc, DOMAIN proc \ {q}) EXCEPT ![p].waits = @ - 1]
    /\ Quiet

\* After the last wait: the shell prompts, a list runs its right side, a pipe exits.
Continue(p) ==
    /\ proc[p].pc = "wait" /\ proc[p].waits = 0
    /\ proc' = [proc EXCEPT ![p].pc = IF p = Sh THEN "prompt" ELSE "run"]
    /\ Quiet

(***************************************************************************)
(* main, and init, which starts the shell again when it exits.             *)
(***************************************************************************)

Prompts == proc[Sh].pc = "prompt"

\* A line other than cd: the child parses it and runs it, or ends in panic().
RunLine(line) ==
    LET cmd == parsecmd(line)
        me == [proc[Sh] EXCEPT !.pc = "wait", !.waits = 1]
        kid == Process("run", IF cmd.ok THEN cmd.cmd ELSE execcmd(<<>>), <<>>, proc[Sh].fd)
    IN /\ Prompts /\ Len(jobs) < MaxJobs
       /\ line[1] # "cd"
       /\ jobs' = Append(jobs, kid.cmd)
       /\ Forked(Sh, me, kid)
       /\ UNCHANGED <<pipe, failed, fails>>

\* fork1 fails in the shell, or gets returns nothing: the shell exits.  Both count
\* as failures.
ShellExits ==
    /\ Prompts /\ fails > 0
    /\ fails' = fails - 1
    /\ proc' = [proc EXCEPT ![Sh].pc = "zombie"]
    /\ UNCHANGED <<pipe, jobs, failed>>

\* init reaps the shell and forks another one.
InitRestarts ==
    /\ proc[Sh].pc = "zombie"
    /\ proc' = [proc EXCEPT ![Sh].pc = "prompt", ![Sh].fd = StdFds]
    /\ Quiet

\* The fork of init fails and init exits, on which the kernel panics.
InitFails ==
    /\ proc[Sh].pc = "zombie" /\ fails > 0
    /\ fails' = fails - 1
    /\ proc' = [proc EXCEPT ![Sh].pc = "panic"]
    /\ UNCHANGED <<pipe, jobs, failed>>

Panicked == proc[Sh].pc = "panic"

(***************************************************************************)
(* Programs: copy reads bytes from descriptor 0 and writes them to 1, up   *)
(* to the end of its input; any other program writes one byte.  The        *)
(* console and files are at their end.                                     *)
(***************************************************************************)

Holds(ref) == \E p \in DOMAIN proc : \E k \in 0 .. NOFILE - 1 : proc[p].fd[k] = ref
IsCopy(p) == proc[p].cmd.argv[1] = "copy"

ProgramReads(p) ==
    LET in == proc[p].fd[0]
    IN /\ proc[p].pc = "program" /\ IsCopy(p) /\ ~proc[p].byte
       /\ IF in.kind = "reader" /\ pipe[in.of] > 0
          THEN /\ pipe' = [pipe EXCEPT ![in.of] = @ - 1]
               /\ proc' = [proc EXCEPT ![p].byte = TRUE]
          ELSE /\ in.kind = "reader" => ~Holds(Writer(in.of))
               /\ Exit(p)
               /\ UNCHANGED pipe
       /\ UNCHANGED <<jobs, failed, fails>>

ProgramWrites(p) ==
    LET out == proc[p].fd[1]
        broken == out.kind = "writer" /\ ~Holds(Reader(out.of))
    IN /\ proc[p].pc = "program" /\ (IsCopy(p) => proc[p].byte)
       /\ out.kind = "writer" => (broken \/ pipe[out.of] < PIPESIZE)
       /\ pipe' = IF out.kind = "writer" /\ ~broken THEN [pipe EXCEPT ![out.of] = @ + 1] ELSE pipe
       /\ IF IsCopy(p) /\ ~broken THEN proc' = [proc EXCEPT ![p].byte = FALSE] ELSE Exit(p)
       /\ UNCHANGED <<jobs, failed, fails>>

Init ==
    /\ proc = (Sh :> Process("prompt", execcmd(<<>>), <<>>, StdFds))
    /\ pipe = <<>>
    /\ jobs = <<>>
    /\ failed = {}
    /\ fails = MaxFails

Step(p) ==
    \/ RunExec(p) \/ RunRedir(p) \/ RunList(p) \/ RunPipe(p) \/ RunPipeSecond(p) \/ RunBack(p)
    \/ PipeChild(p) \/ Wait(p) \/ Continue(p)
    \/ ProgramReads(p) \/ ProgramWrites(p)

Next ==
    /\ ~Panicked
    /\ \/ \E p \in DOMAIN proc : Step(p)
       \/ \E line \in Lines : RunLine(line)
       \/ ShellExits \/ InitRestarts \/ InitFails

Spec == Init /\ [][Next]_vars
\* Processes that can run do; nobody has to type.
FairSpec ==
    Spec /\ WF_vars(~Panicked /\ (InitRestarts \/ InitFails \/ \E p \in DOMAIN proc : Step(p)))

(***************************************************************************)
(* Properties.                                                             *)
(***************************************************************************)

\* The variables have the types of their declarations; 0, 1 and 2 are open.
TypeOK ==
    /\ \A p \in DOMAIN proc :
          /\ proc[p].pc \in {"prompt", "wait", "run", "second", "left", "right", "program", "zombie", "panic"}
          /\ proc[p].waits \in 0 .. 2
          /\ proc[p].pc # "zombie" => \A k \in 0 .. 2 : proc[p].fd[k] # None
    /\ Sh \in DOMAIN proc
    /\ \A id \in DOMAIN pipe : pipe[id] \in 0 .. PIPESIZE
    /\ failed \subseteq DOMAIN jobs

\* What the command says about a node: its input and output, following the tree.
RECURSIVE Wiring(_, _, _, _)
Wiring(cmd, node, at, io) ==
    IF node = <<>> THEN io
    ELSE LET b == Head(node)
             sub == IF b = "L" THEN cmd.left ELSE IF b = "R" THEN cmd.right ELSE cmd.cmd
             wired == CASE cmd.type = "PIPE" /\ b = "L" -> [io EXCEPT ![1] = Writer(at)]
                        [] cmd.type = "PIPE" /\ b = "R" -> [io EXCEPT ![0] = Reader(at)]
                        [] cmd.type = "REDIR" -> [io EXCEPT ![cmd.fd] = File(cmd.file)]
                        [] OTHER -> io
         IN Wiring(sub, Tail(node), Append(at, b), wired)

\* A program is started with the input and the output its place in the command says,
\* and with no other descriptor open: no stray end of a pipe.
Wired ==
    \A p \in DOMAIN proc : proc[p].pc = "program" =>
       proc[p].fd = Wiring(jobs[Job(p)], proc[p].node, <<Job(p)>>, StdFds)

RECURSIVE UnderBack(_, _)
UnderBack(cmd, node) ==
    /\ node # <<>>
    /\ \/ cmd.type = "BACK"
       \/ LET b == Head(node)
          IN UnderBack(IF b = "L" THEN cmd.left ELSE IF b = "R" THEN cmd.right ELSE cmd.cmd, Tail(node))

InBackground(p) == UnderBack(jobs[Job(p)], proc[p].node)

\* When the shell prompts, every process of the earlier lines is gone and reaped,
\* except the ones in the background, unless a fork or a pipe failed.
PromptMeansDone ==
    Prompts => \A p \in DOMAIN proc \ {Sh} : InBackground(p) \/ Job(p) \in failed

RECURSIVE NodeAt(_, _)
NodeAt(cmd, node) ==
    IF node = <<>> THEN cmd
    ELSE LET b == Head(node)
         IN NodeAt(IF b = "L" THEN cmd.left ELSE IF b = "R" THEN cmd.right ELSE cmd.cmd, Tail(node))

\* The right side of a list does not start before the left one has ended.
ListInOrder ==
    \A p, q \in Live \ {Sh} :
       (Job(p) = Job(q) /\ Job(p) \notin failed /\ ~InBackground(p)) =>
          \A n \in 0 .. Len(proc[p].node) - 1 :
             LET l == SubSeq(proc[p].node, 1, n)
             IN (Append(l, "L") = SubSeq(proc[p].node, 1, n + 1)
                   /\ IsPrefix(Append(l, "R"), proc[q].node) /\ proc[q].pc # "wait")
                => NodeAt(jobs[Job(p)], l).type # "LIST"

\* A line as one would write the command, with parentheses where they are needed.
RECURSIVE Unparse(_, _)
Unparse(cmd, level) ==
    LET Paren(s, needed) == IF needed THEN <<"(">> \o s \o <<")">> ELSE s
    IN CASE cmd.type = "EXEC" -> cmd.argv
         [] cmd.type = "REDIR" -> Unparse(cmd.cmd, 3) \o <<IF cmd.fd = 0 THEN "<" ELSE ">", cmd.file>>
         [] cmd.type = "PIPE" -> Paren(Unparse(cmd.left, 2) \o <<"|">> \o Unparse(cmd.right, 1), level > 1)
         [] cmd.type = "BACK" -> Paren(Unparse(cmd.cmd, 0) \o <<"&">>, level > 0)
         [] cmd.type = "LIST" -> Paren(Unparse(cmd.left, 0) \o <<";">> \o Unparse(cmd.right, -1), level > -1)

\* Commands up to a depth; one side of a pipe or a list is simple.
RECURSIVE Commands(_)
Commands(depth) ==
    LET simple == {execcmd(<<>>), execcmd(<<"copy">>)}
        sub == Commands(depth - 1)
        both == (sub \X simple) \cup (simple \X sub)
    IN IF depth = 0 THEN simple
       ELSE sub \cup {redircmd(c, "f", fd) : c \in sub, fd \in {0, 1}} \cup {backcmd(c) : c \in sub}
                \cup {pipecmd(b[1], b[2]) : b \in both} \cup {listcmd(b[1], b[2]) : b \in both}

\* The parser finds the command a line was written for: precedence, associativity,
\* blocks and redirections.
ParseInverts ==
    (jobs = <<>> /\ fails = MaxFails) =>
       \A cmd \in Commands(2) : parsecmd(Unparse(cmd, -1)) = Parsed(cmd, <<>>)

\* The shell prompts again after each line: no reader waits for an end of file that
\* a forgotten descriptor holds back.
JobsEnd == proc[Sh].pc = "wait" ~> Prompts

\* Descriptors: 0, 1 and 2 are open in the shell and its children, and a program has
\* the ones its command says and no others.
DescriptorsRight == TypeOK /\ Wired

\* The foreground: a list runs in its order, and the prompt comes when it is over.
ForegroundInOrder == PromptMeansDone /\ ListInOrder
=============================================================================
