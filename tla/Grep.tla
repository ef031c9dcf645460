-------------------------------- MODULE Grep --------------------------------
(***************************************************************************)
(* user/grep.c: the matcher, and the loop that cuts what it reads, in      *)
(* pieces of any length, into lines.  A pipe feeds it; "n" is a newline.   *)
(***************************************************************************)
EXTENDS Integers, SequencesExt, FiniteSetsExt

CONSTANTS BUF,                       \* sizeof(buf), 1024
          ReChars, MaxRe, FileChars, MaxFile

VARIABLES re, sent, unread,          \* the pattern; what the pipe was given, and still holds
          gbuf,                      \* buf[0..m-1] between two reads
          out, gpc                   \* "typing" the pattern, "reading", "done"

grVars == <<re, sent, unread, gbuf, out, gpc>>

GrTypeOK ==
  /\ Len(re) <= MaxRe /\ Len(sent) <= MaxFile /\ Len(gbuf) < BUF
  /\ gpc \in {"typing", "reading", "done"}

GrInit == re = <<>> /\ sent = <<>> /\ unread = <<>> /\ gbuf = <<>> /\ out = <<>> /\ gpc = "typing"
-----------------------------------------------------------------------------
Char1(s) == IF s = <<>> THEN "nul" ELSE Head(s)
Is2(r, c) == Len(r) >= 2 /\ r[2] = c

RECURSIVE Matchhere(_, _), Matchstar(_, _, _)
(* matchstar() *)
Matchstar(c, r, t) ==
  \/ Matchhere(r, t)
  \/ t # <<>> /\ (Head(t) = c \/ c = ".") /\ Matchstar(c, r, Tail(t))

AtEnd(t) == t = <<>>

(* matchhere() *)
Matchhere(r, t) ==
  IF r = <<>> THEN TRUE
  ELSE IF Is2(r, "*") THEN Matchstar(Head(r), SubSeq(r, 3, Len(r)), t)
  ELSE IF r = <<"$">> THEN AtEnd(t)
  ELSE t # <<>> /\ (Head(r) = "." \/ Head(r) = Head(t)) /\ Matchhere(Tail(r), Tail(t))

(* match() *)
Match(r, t) ==
  IF Char1(r) = "^" THEN Matchhere(Tail(r), t)
  ELSE \E k \in 1..(Len(t) + 1) : Matchhere(r, SubSeq(t, k, Len(t)))
-----------------------------------------------------------------------------
TypeRe(c) ==
  /\ gpc = "typing" /\ Len(re) < MaxRe
  /\ re' = Append(re, c) /\ UNCHANGED <<sent, unread, gbuf, out, gpc>>

GrStart == gpc = "typing" /\ gpc' = "reading" /\ UNCHANGED <<re, sent, unread, gbuf, out>>

(* The process at the other end of the pipe *)
Feed(c) ==
  /\ gpc = "reading" /\ Len(sent) < MaxFile
  /\ sent' = Append(sent, c) /\ unread' = Append(unread, c)
  /\ UNCHANGED <<re, gbuf, out, gpc>>

Newlines(s) == {k \in DOMAIN s : s[k] = "n"}

(* The while loop over strchr(p, '\n'): the lines of s that match *)
RECURSIVE Printed(_)
Printed(s) ==
  IF Newlines(s) = {} THEN <<>>
  ELSE LET q == Min(Newlines(s))
       IN  (IF Match(re, SubSeq(s, 1, q - 1)) THEN SubSeq(s, 1, q) ELSE <<>>)
           \o Printed(SubSeq(s, q + 1, Len(s)))

(* Mutant: the rest of a line is not kept for the next read. *)
RestNot(s) == IF Newlines(s) = {} THEN s ELSE <<>>

(* memmove(buf, p, m): what follows the last newline *)
Rest(s) == IF Newlines(s) = {} THEN s ELSE SubSeq(s, Max(Newlines(s)) + 1, Len(s))

Room0 == BUF - Len(gbuf) - 1

(* read() returns n > 0 characters; grep() goes through the lines. *)
GrRead(n) ==
  LET s == gbuf \o SubSeq(unread, 1, n) IN
  /\ gpc = "reading" /\ n <= Room0 /\ n <= Len(unread)
  /\ out' = out \o Printed(s) /\ gbuf' = Rest(s)
  /\ unread' = SubSeq(unread, n + 1, Len(unread))
  /\ UNCHANGED <<re, sent, gpc>>

(* read() returns 0: no room, or the pipe is empty and its other end closed. *)
GrDone ==
  /\ gpc = "reading" /\ (Room0 = 0 \/ unread = <<>>)
  /\ gpc' = "done" /\ UNCHANGED <<re, sent, unread, gbuf, out>>

(* Another run of the program *)
GrAgain ==
  /\ gpc = "done" /\ gpc' = "typing" /\ re' = <<>> /\ sent' = <<>> /\ unread' = <<>>
  /\ gbuf' = <<>> /\ out' = <<>>

GrNext ==
  \/ GrStart \/ GrDone \/ GrAgain
  \/ \E c \in ReChars : TypeRe(c)
  \/ \E c \in FileChars : Feed(c)
  \/ \E n \in 1..MaxFile : GrRead(n)
-----------------------------------------------------------------------------
(* A pattern is a sequence of items, some starred; the positions of t that a
   match of the first of them, begun at a position of S, can end at. *)
RECURSIVE Items(_)
Items(r) ==
  IF r = <<>> THEN <<>>
  ELSE IF Is2(r, "*") THEN <<[c |-> Head(r), star |-> TRUE]>> \o Items(SubSeq(r, 3, Len(r)))
  ELSE <<[c |-> Head(r), star |-> FALSE]>> \o Items(Tail(r))

Takes(c, x) == c = "." \/ c = x
Reach(items, t, S) ==
  LET Step(P, k) ==
        LET i == items[k] IN
        IF i.star THEN {q \in 1..(Len(t) + 1) : \E p \in P : p <= q /\ \A m \in p..(q - 1) : Takes(i.c, t[m])}
        ELSE IF i.c = "$" /\ k = Len(items) THEN P \cap {Len(t) + 1}
        ELSE {p + 1 : p \in {p \in P : p <= Len(t) /\ Takes(i.c, t[p])}}
  IN  FoldLeft(Step, S, [k \in 1..Len(items) |-> k])

Matches(r, t) ==
  IF Char1(r) = "^" THEN Reach(Items(Tail(r)), t, {1}) # {}
  ELSE Reach(Items(r), t, 1..(Len(t) + 1)) # {}

(* The lines grep should print: those that match, of the complete lines before
   the first that does not fit the buffer. *)
RECURSIVE Expected(_)
Expected(s) ==
  IF Newlines(s) = {} \/ Min(Newlines(s)) > BUF - 1 THEN <<>>
  ELSE LET q == Min(Newlines(s))
       IN  (IF Matches(re, SubSeq(s, 1, q - 1)) THEN SubSeq(s, 1, q) ELSE <<>>)
           \o Expected(SubSeq(s, q + 1, Len(s)))

(* However read() cuts the input, grep prints the matching lines, whole and
   once each.  A last line without a newline, and what follows a line longer
   than the buffer, it ignores. *)
GrepExact == gpc = "done" => out = Expected(sent)

(* The backtracking matcher agrees with the meaning of the pattern. *)
MatchIsRegex ==
  gpc = "reading" /\ Newlines(sent) = {} => (Match(re, sent) <=> Matches(re, sent))

(* grep prints the lines that match: the matcher and the buffer are right. *)
GrepRight == GrTypeOK /\ GrepExact /\ MatchIsRegex
=============================================================================
