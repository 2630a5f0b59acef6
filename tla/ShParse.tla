------------------------------ MODULE ShParse -------------------------------
(***************************************************************************)
(* The parser of sh.c, on sequences of tokens: "a" is a word, "+" is >>.   *)
(* Every function takes the tokens that are left and gives its result, a   *)
(* command and what is left after it, as a set: the set is empty when the  *)
(* function calls panic().                                                 *)
(***************************************************************************)
EXTENDS Integers, Sequences

CONSTANT MAXARGS

\* The constructors: the words of an EXEC are counted, a REDIR has a descriptor.
execcmd(argc) == [type |-> "EXEC", argc |-> argc]
redircmd(sub, fd) == [type |-> "REDIR", cmd |-> sub, fd |-> fd]
pipecmd(left, right) == [type |-> "PIPE", left |-> left, right |-> right]
listcmd(left, right) == [type |-> "LIST", left |-> left, right |-> right]
backcmd(sub) == [type |-> "BACK", cmd |-> sub]
NoCmd == [type |-> "none"]

Parsed(cmd, rest) == [cmd |-> cmd, rest |-> rest]

\* peek() looks at one character, so that it takes >> for >.
peek(s, toks) == s # <<>> /\ Head(s) \in toks

gettoken(s) == Tail(s)

\* The descriptor of < and of > and >>.
RedirFd(tok) == IF tok = "<" THEN 0 ELSE 1

RECURSIVE parseredirs(_, _)
parseredirs(cmd, s) ==
  IF ~peek(s, {"<", ">", "+"}) THEN {Parsed(cmd, s)}
  ELSE IF ~peek(gettoken(s), {"a"}) THEN {}
  ELSE parseredirs(redircmd(cmd, RedirFd(Head(s))), gettoken(gettoken(s)))

\* argv[argc++] of the EXEC inside of the redirections.
RECURSIVE AddArg(_)
AddArg(c) == IF c.type = "EXEC" THEN execcmd(c.argc + 1) ELSE [c EXCEPT !.cmd = AddArg(@)]
RECURSIVE Args(_)
Args(c) == IF c.type = "EXEC" THEN c.argc ELSE Args(c.cmd)

\* Mutant: a block does not end its last command.
EndsExecNoBlock(s) == s = <<>> \/ peek(s, {"|", "&", ";"})

EndsExec(s) == s = <<>> \/ peek(s, {"|", ")", "&", ";"})

\* The loop of parseexec(), after a call of parseredirs().
RECURSIVE ExecLoop(_)
ExecLoop(r) ==
  IF EndsExec(r.rest) THEN {r}
  ELSE IF Head(r.rest) # "a" \/ Args(r.cmd) + 1 >= MAXARGS THEN {}
  ELSE UNION {ExecLoop(t) : t \in parseredirs(AddArg(r.cmd), gettoken(r.rest))}

\* backcmd() for every & that follows.
RECURSIVE Backs(_, _)
Backs(cmd, s) == IF peek(s, {"&"}) THEN Backs(backcmd(cmd), gettoken(s)) ELSE Parsed(cmd, s)

RECURSIVE parseline(_), parsepipe(_)

parseblock(s) ==
  UNION {IF peek(b.rest, {")"}) THEN parseredirs(b.cmd, gettoken(b.rest)) ELSE {} :
           b \in parseline(gettoken(s))}

parseexec(s) ==
  IF peek(s, {"("}) THEN parseblock(s)
  ELSE UNION {ExecLoop(r) : r \in parseredirs(execcmd(0), s)}

parsepipe(s) ==
  UNION {IF peek(l.rest, {"|"})
           THEN {Parsed(pipecmd(l.cmd, r.cmd), r.rest) : r \in parsepipe(gettoken(l.rest))}
           ELSE {l} : l \in parseexec(s)}

parseline(s) ==
  UNION {IF peek(l.rest, {";"})
           THEN {Parsed(listcmd(l.cmd, r.cmd), r.rest) : r \in parseline(gettoken(l.rest))}
           ELSE {l} : l \in {Backs(p.cmd, p.rest) : p \in parsepipe(s)}}

\* The whole line; leftovers are an error.
parsecmd(s) == {l.cmd : l \in {r \in parseline(s) : r.rest = <<>>}}

-----------------------------------------------------------------------------
(* The grammar: the commands that the tokens i to j of a line can be.        *)
(*   Line   ::= Pipe | Back | Pipe ";" Line | Back ";" Line                  *)
(*   Back   ::= Pipe "&" | Back "&"                                          *)
(*   Pipe   ::= Item | Item "|" Pipe                                         *)
(*   Item   ::= Simple | Block                                               *)
(*   Block  ::= "(" Line ")" | Block redirection                             *)
(*   Simple ::= | Simple word | Simple redirection                           *)

IsRedir(s, i, j) == j > i /\ s[j] = "a" /\ s[j - 1] \in {"<", ">", "+"}
Redirected(cmds, tok) == {redircmd(c, RedirFd(tok)) : c \in cmds}
Places(s, i, j, tok) == {k \in i .. j : s[k] = tok}

RECURSIVE Simple(_, _, _), Block(_, _, _), Pipe(_, _, _), Back(_, _, _), Line(_, _, _)
Simple(s, i, j) ==
  IF j < i THEN {execcmd(0)}
  ELSE (IF IsRedir(s, i, j) THEN Redirected(Simple(s, i, j - 2), s[j - 1]) ELSE {})
       \cup (IF s[j] = "a"
               THEN {AddArg(c) : c \in {d \in Simple(s, i, j - 1) : Args(d) + 1 < MAXARGS}}
               ELSE {})
Block(s, i, j) ==
  (IF j > i /\ s[i] = "(" /\ s[j] = ")" THEN Line(s, i + 1, j - 1) ELSE {})
    \cup (IF IsRedir(s, i, j) THEN Redirected(Block(s, i, j - 2), s[j - 1]) ELSE {})
Pipe(s, i, j) ==
  Simple(s, i, j) \cup Block(s, i, j) \cup
    UNION {{pipecmd(l, r) : l \in Simple(s, i, k - 1) \cup Block(s, i, k - 1), r \in Pipe(s, k + 1, j)} :
             k \in Places(s, i, j, "|")}
Back(s, i, j) ==
  IF j >= i /\ s[j] = "&" THEN {backcmd(c) : c \in Pipe(s, i, j - 1) \cup Back(s, i, j - 1)} ELSE {}
Line(s, i, j) ==
  Pipe(s, i, j) \cup Back(s, i, j) \cup
    UNION {{listcmd(l, r) : l \in Pipe(s, i, k - 1) \cup Back(s, i, k - 1), r \in Line(s, k + 1, j)} :
             k \in Places(s, i, j, ";")}
=============================================================================
