------------------------------- MODULE Shell -------------------------------
(***************************************************************************)
(* The shell, user/sh.c: its recursive-descent parser, on characters, and  *)
(* what runcmd() makes of a command: which programs run, and on which file *)
(* descriptors.  The parser's pointers are positions in line; a word is a  *)
(* pair of them, [q, eq), that nulterminate() turns into a string.         *)
(***************************************************************************)
EXTENDS Integers, SequencesExt, FiniteSetsExt

CONSTANTS Chars,        \* what is typed
          MAXLINE,      \* of gets(): the longest line
          MAXARGS

VARIABLES line, cmd     \* cmd: what parsecmd() made of line

shVars == <<line, cmd>>

White == {" "}
Symbols == {"<", "|", ">", "&", ";", "(", ")"}
NUL == "nul"
Char(i) == IF i > Len(line) THEN NUL ELSE line[i]
IsWord(i) == Char(i) \notin White \cup Symbols \cup {NUL}

(* Skips white space: the first position from i on that is none. *)
Skip(i) == Min({k \in i..(Len(line) + 1) : Char(k) \notin White})

WordEnd(i) == Min({k \in i..(Len(line) + 1) : ~IsWord(k)})

(* gettoken() *)
Gettoken(i) ==
  LET q == Skip(i)
      append == Char(q) = ">" /\ Char(q + 1) = ">"
      eq == IF Char(q) = NUL THEN q
            ELSE IF IsWord(q) THEN WordEnd(q)
            ELSE IF append THEN q + 2 ELSE q + 1
  IN  [tok |-> IF IsWord(q) THEN "a" ELSE IF append THEN "+" ELSE Char(q),
       word |-> <<q, eq>>, at |-> Skip(eq)]

Peek(i, toks) == Char(Skip(i)) \in toks
After(i) == Gettoken(i).at

(* What the parsing functions return; panic() ends the child. *)
Parsed(i, c) == [ok |-> TRUE, at |-> i, cmd |-> c]
Syntax(i) == [ok |-> FALSE, at |-> i, cmd |-> [type |-> "none"]]

Execcmd(argv) == [type |-> "EXEC", argv |-> argv]
Redircmd(c, file, fd) == [type |-> "REDIR", cmd |-> c, file |-> file, fd |-> fd]
Pipecmd(l, r) == [type |-> "PIPE", left |-> l, right |-> r]
Listcmd(l, r) == [type |-> "LIST", left |-> l, right |-> r]
Backcmd(c) == [type |-> "BACK", cmd |-> c]

(* parseredirs(): the redirections from i on, in a sequence; the command they
   are put around is still growing in parseexec(). *)
RECURSIVE Parseredirs(_, _)
Parseredirs(i, acc) ==
  LET op == Gettoken(i)
      file == Gettoken(op.at)
  IN  IF ~Peek(i, {"<", ">"}) THEN [ok |-> TRUE, at |-> Skip(i), redirs |-> acc]
      ELSE IF file.tok # "a" THEN [ok |-> FALSE, at |-> i, redirs |-> acc]
      ELSE Parseredirs(file.at, Append(acc, [file |-> file.word, fd |-> IF op.tok = "<" THEN 0 ELSE 1]))

Redirected(c, redirs) == FoldLeft(LAMBDA x, r : Redircmd(x, r.file, r.fd), c, redirs)

TooMany(argv) == Len(argv) >= MAXARGS

(* The loop of parseexec(), at i with the next token t; an argument is read,
   and r are the redirections after it. *)
RECURSIVE ParseArgs(_, _, _), OneArg(_, _, _, _), NextArg(_, _)
ParseArgs(i, argv, redirs) == OneArg(i, Gettoken(i), argv, redirs)

OneArg(i, t, argv, redirs) ==
  IF Peek(i, {"|", ")", "&", ";"}) \/ t.tok = NUL THEN Parsed(Skip(i), Redirected(Execcmd(argv), redirs))
  ELSE IF t.tok # "a" \/ TooMany(Append(argv, t.word)) THEN Syntax(i)
  ELSE NextArg(Parseredirs(t.at, redirs), Append(argv, t.word))

NextArg(r, argv) == IF r.ok THEN ParseArgs(r.at, argv, r.redirs) ELSE Syntax(r.at)

(* while(peek(ps, es, "&")) *)
RECURSIVE Backs(_)
Backs(r) == IF r.ok /\ Peek(r.at, {"&"}) THEN Backs(Parsed(After(r.at), Backcmd(r.cmd))) ELSE r

(* parseblock(), after its parseline() has returned b, and with the
   redirections r that follow *)
BlockRedirs(r, c) == IF r.ok THEN Parsed(r.at, Redirected(c, r.redirs)) ELSE Syntax(r.at)
BlockEnd(b) ==
  IF b.ok /\ Gettoken(b.at).tok = ")" THEN BlockRedirs(Parseredirs(After(b.at), <<>>), b.cmd)
  ELSE Syntax(b.at)

(* parseline() and parsepipe() call themselves when a ";" or "|" follows what
   they have parsed. *)
RECURSIVE Parseline(_), ListRest(_), Parsepipe(_), PipeRest(_), Parseexec(_)
Parseline(i) == ListRest(Backs(Parsepipe(i)))
ListRest(b) ==
  IF ~b.ok \/ ~Peek(b.at, {";"}) THEN b
  ELSE [Parseline(After(b.at)) EXCEPT !.cmd = Listcmd(b.cmd, @)]

Parsepipe(i) == PipeRest(Parseexec(i))
PipeRest(l) ==
  IF ~l.ok \/ ~Peek(l.at, {"|"}) THEN l
  ELSE [Parsepipe(After(l.at)) EXCEPT !.cmd = Pipecmd(l.cmd, @)]

Parseexec(i) ==
  IF Peek(i, {"("}) THEN BlockEnd(Parseline(After(i)))
  ELSE NextArg(Parseredirs(i, <<>>), <<>>)

(* parsecmd() *)
Whole(r) == IF r.ok /\ Skip(r.at) = Len(line) + 1 THEN r ELSE Syntax(r.at)
Parsecmd == Whole(Parseline(1))

(* The words of a command *)
RECURSIVE Words(_)
Words(c) ==
  CASE c.type = "EXEC" -> Range(c.argv)
    [] c.type = "REDIR" -> Words(c.cmd) \cup {c.file}
    [] c.type \in {"PIPE", "LIST"} -> Words(c.left) \cup Words(c.right)
    [] c.type = "BACK" -> Words(c.cmd)
    [] OTHER -> {}

(* nulterminate(): a NUL at the end of every word *)
Nulterminate(c) == {w[2] : w \in Words(c)}
-----------------------------------------------------------------------------
(* File descriptors: f[fd] is what is open there, Closed when nothing is. *)
Closed == <<>>
Lowest(f) == Min({k \in DOMAIN f : f[k] = Closed})
CloseFd(f, k) == [f EXCEPT ![k] = Closed]
OpenFd(f, x) == [f EXCEPT ![Lowest(f)] = x]
Dup(f, k) == OpenFd(f, f[k])

(* Mutant: the child keeps the end it does not use. *)
EndsKept(f, p) == CloseFd(f, p[2])

(* close(p[0]); close(p[1]); *)
Ends(f, p) == CloseFd(CloseFd(f, p[1]), p[2])

(* runcmd() in a process with the descriptors f: the programs it and its
   children exec.  id tells the pipes apart; the files in bad cannot be opened,
   and whoever tries exits.  A process has at most five descriptors open, so
   that fdalloc() finds one. *)
RECURSIVE Runcmd(_, _, _, _)
Runcmd(c, f, id, bad) ==
  CASE c.type = "EXEC" -> IF c.argv = <<>> THEN {} ELSE {[argv |-> c.argv, fds |-> f]}
    [] c.type = "REDIR" -> IF c.file \in bad THEN {}
                           ELSE Runcmd(c.cmd, OpenFd(CloseFd(f, c.fd), <<"file", c.file>>), id, bad)
    [] c.type = "LIST" -> Runcmd(c.left, f, Append(id, 0), bad) \cup Runcmd(c.right, f, Append(id, 1), bad)
    [] c.type = "BACK" -> Runcmd(c.cmd, f, id, bad)
    [] c.type = "PIPE" ->
         LET rd == Lowest(f)
             g == OpenFd(f, <<"read", id>>)
             p == <<rd, Lowest(g)>>
             h == OpenFd(g, <<"write", id>>)
         IN  Runcmd(c.left, Ends(Dup(CloseFd(h, 1), p[2]), p), Append(id, 0), bad)
             \cup Runcmd(c.right, Ends(Dup(CloseFd(h, 0), p[1]), p), Append(id, 1), bad)

Tty == <<"console">>
Console3 == [k \in 0..6 |-> IF k < 3 THEN Tty ELSE Closed]    \* main() sees to it
-----------------------------------------------------------------------------
NoCmd == [ok |-> FALSE, at |-> 0, cmd |-> [type |-> "none"]]

ShTypeOK ==
  /\ line \in Seq(Chars) /\ Len(line) <= MAXLINE
  /\ cmd.ok => cmd.at = Len(line) + 1 /\ cmd.cmd.type \in {"EXEC", "REDIR", "PIPE", "LIST", "BACK"}

ShInit == line = <<>> /\ cmd = NoCmd

(* gets(): one more character *)
Typed(c) == cmd = NoCmd /\ Len(line) < MAXLINE /\ line' = Append(line, c) /\ UNCHANGED cmd

(* The line is complete; the child parses it.  Lines that begin with "cd " are
   left out: the shell calls chdir() for them itself. *)
Enter == cmd = NoCmd /\ cmd' = Parsecmd /\ UNCHANGED line

(* wait(0), and the next getcmd() *)
Getcmd == cmd # NoCmd /\ line' = <<>> /\ cmd' = NoCmd

ShNext == Enter \/ Getcmd \/ \E c \in Chars : Typed(c)
-----------------------------------------------------------------------------
(* The tokens of the line, and the grammar of commands over the tokens from i
   to j - 1, with every way of splitting them. *)
RECURSIVE Tokens(_)
Tokens(i) == LET t == Gettoken(i) IN IF t.tok = NUL THEN <<>> ELSE <<t.tok>> \o Tokens(t.at)

RECURSIVE IsRedirs(_, _, _), IsArgs(_, _, _, _), IsExec(_, _, _), IsPipe(_, _, _), IsBack(_, _, _), IsLine(_, _, _)
Redir(t, i, j) == i + 1 < j /\ t[i] \in {"<", ">", "+"} /\ t[i + 1] = "a"
IsRedirs(t, i, j) == i = j \/ (Redir(t, i, j) /\ IsRedirs(t, i + 2, j))
IsArgs(t, i, j, n) ==
  \/ i = j
  \/ i < j /\ t[i] = "a" /\ n > 0 /\ IsArgs(t, i + 1, j, n - 1)
  \/ Redir(t, i, j) /\ IsArgs(t, i + 2, j, n)
IsExec(t, i, j) ==
  \/ IsArgs(t, i, j, MAXARGS - 1)
  \/ \E k \in (i + 1)..(j - 1) : t[i] = "(" /\ t[k] = ")" /\ IsLine(t, i + 1, k) /\ IsRedirs(t, k + 1, j)
IsPipe(t, i, j) ==
  IsExec(t, i, j) \/ \E k \in i..(j - 1) : t[k] = "|" /\ IsExec(t, i, k) /\ IsPipe(t, k + 1, j)
IsBack(t, i, j) == IsPipe(t, i, j) \/ (i < j /\ t[j - 1] = "&" /\ IsBack(t, i, j - 1))
IsLine(t, i, j) ==
  IsBack(t, i, j) \/ \E k \in i..(j - 1) : t[k] = ";" /\ IsBack(t, i, k) /\ IsLine(t, k + 1, j)

(* parsecmd() looks one token ahead and never goes back; it accepts exactly
   the lines that can be split into commands in some way. *)
AcceptsGrammar ==
  cmd # NoCmd => LET t == Tokens(1) IN cmd.ok <=> IsLine(t, 1, Len(t) + 1)

(* Every word of an accepted line is in the command, once cut out by the NULs
   of nulterminate() exactly as it was typed. *)
WordsKept ==
  cmd.ok =>
    /\ Words(cmd.cmd) = {<<q, eq>> \in (1..Len(line)) \X (2..(Len(line) + 1)) :
         /\ q < eq /\ \A k \in q..(eq - 1) : IsWord(k)
         /\ ~IsWord(eq) /\ (q = 1 \/ ~IsWord(q - 1))}
    /\ \A w \in Words(cmd.cmd), e \in Nulterminate(cmd.cmd) : e <= w[1] \/ w[2] <= e

(* What a command means: its programs, each with its input, its output and the
   files that redirections around it open. *)
RECURSIVE Meaning(_, _, _, _, _)
Meaning(c, in, out, id, opens) ==
  CASE c.type = "EXEC" -> IF c.argv = <<>> THEN {} ELSE {[argv |-> c.argv, in |-> in, out |-> out, opens |-> opens]}
    [] c.type = "REDIR" -> LET file == <<"file", c.file>>
                           IN  Meaning(c.cmd, IF c.fd = 0 THEN file ELSE in, IF c.fd = 0 THEN out ELSE file,
                                       id, opens \cup {c.file})
    [] c.type = "LIST" -> Meaning(c.left, in, out, Append(id, 0), opens)
                          \cup Meaning(c.right, in, out, Append(id, 1), opens)
    [] c.type = "BACK" -> Meaning(c.cmd, in, out, id, opens)
    [] c.type = "PIPE" -> Meaning(c.left, in, <<"write", id>>, Append(id, 0), opens)
                          \cup Meaning(c.right, <<"read", id>>, out, Append(id, 1), opens)

(* Whatever pipes and redirections are nested, and whichever files cannot be
   opened, close() and dup() put the right files on 0 and 1, and leave no end of
   a pipe open beside them, which would keep a reader from seeing the end of the
   file; a program runs if and only if every file redirected around it opens. *)
PlumbingRight ==
  cmd.ok =>
    LET meant == Meaning(cmd.cmd, Tty, Tty, <<>>, {}) IN
    \A bad \in SUBSET UNION {x.opens : x \in meant} :
      LET programs == Runcmd(cmd.cmd, Console3, <<>>, bad)
      IN  /\ {<<x.argv, x.fds[0], x.fds[1]>> : x \in programs}
               = {<<x.argv, x.in, x.out>> : x \in {y \in meant : y.opens \cap bad = {}}}
          /\ \A x \in programs : x.fds[2] = Tty /\ \A k \in DOMAIN x.fds : k > 2 => x.fds[k] = Closed

(* sh.c runs the programs that the line stands for, on the right files. *)
ShellRight == ShTypeOK /\ AcceptsGrammar /\ WordsKept /\ PlumbingRight
=============================================================================
