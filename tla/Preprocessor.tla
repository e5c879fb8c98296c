---------------------------- MODULE Preprocessor ----------------------------
(***************************************************************************)
(* The reading side of the compiler (compiler/sc2.c): preprocess() takes   *)
(* lines from the innermost open file, blanks the comments, obeys the      *)
(* directives and hands the rest to the parser.  An include file is read   *)
(* by saving where the reading stands on a stack; the parser keeps its own *)
(* flags on that same stack.  A line that ends an expression because it is *)
(* a directive is looked at twice.                                         *)
(*                                                                         *)
(* in is the state of sc2.c; files is what the lines read so far mean: for *)
(* every open file the #if blocks, the comment, the line and the library   *)
(* that are in force in that file.  The lines are not fixed beforehand:    *)
(* every step reads any line that may legally stand there.                 *)
(***************************************************************************)
EXTENDS Integers, Sequences, SequencesExt

CONSTANTS Modes,      \* whether semicolons are required, whether a file is included once, the
                      \* names that #pragma library gives
          OneElse,    \* the lines: whether no #else or #elseif follows the #else of an #if
          Names,      \* the names of the files that can be included
          MaxFiles,   \* bound: files opened in one pass
          MaxNest,    \* bound: #if blocks open at a time
          Period      \* bound: lines are counted modulo this number

ASSUME ReaderAssumption ==
  /\ {MaxFiles, MaxNest, Period} \subseteq Nat \ {0}
  /\ OneElse \in BOOLEAN
  /\ \A mode \in Modes : {mode.semicolons, mode.compat} \subseteq BOOLEAN

VARIABLES in, files
vars == <<in, files>>

NONE == "none"
SKIPMODE == 1
PARSEMODE == 2
Truth == {"true", "false"}
Line(op, arg) == [op |-> op, arg |-> arg]
EMPTY == Line("empty", NONE)
Text == {Line(op, NONE) : op \in {"statement", "expression", "(", ")"}}
Directives == {Line(op, b) : op \in {"#if", "#elseif"}, b \in Truth}
              \cup {Line("#include", n) : n \in Names} \cup {Line("#library", l) : l \in UNION {mode.libraries : mode \in Modes}}
              \cup {Line(op, NONE) : op \in {"#else", "#endif", "#endinput", "#define"}}
Bodies == {EMPTY} \cup Text \cup Directives
\* What stands on one line of a file: "*/" in front, the body, "/*" behind it.
Lines == [close : BOOLEAN, body : Bodies, open : BOOLEAN]
BLANK == [close |-> FALSE, body |-> EMPTY, open |-> FALSE]

-----------------------------------------------------------------------------
(* The stack of pushstk() and popstk(). *)
pushstk(s, vals) == [s EXCEPT !.stack = @ \o vals]
Popped(s, k) == IF k < Len(s.stack) THEN s.stack[Len(s.stack) - k] ELSE -1
Dropped(s, k) == SubSeq(s.stack, 1, IF k < Len(s.stack) THEN Len(s.stack) - k ELSE 0)

Mode(s, level) == s.ifstack[level]
SKIPPING(s) == s.skiplevel > 0 /\ Mode(s, s.skiplevel) \in {SKIPMODE, SKIPMODE + PARSEMODE}
Parsed(mode) == mode \in {PARSEMODE, SKIPMODE + PARSEMODE}

\* Plausible bug: the comment that the including line opens goes on in the file.
plungeCommented(s) ==
  LET t == pushstk(s, <<s.inpf, s.curlibrary, s.iflevel, s.icomment, s.fcurrent, s.fline>>)
  IN [t EXCEPT !.inpf = s.fnumber + 1, !.fnumber = @ + 1, !.fcurrent = s.fnumber + 1, !.fline = 0]

\* The file is found and opened, the reading goes on in it.
plungequalifiedfile(s) ==
  LET t == pushstk(s, <<s.inpf, s.curlibrary, s.iflevel, s.icomment, s.fcurrent, s.fline>>)
  IN [t EXCEPT !.inpf = s.fnumber + 1, !.fnumber = @ + 1, !.fcurrent = s.fnumber + 1, !.fline = 0, !.icomment = 0]

\* In compatibility mode a symbol made of the name stops a second inclusion.
doinclude(s, name) ==
  IF s.compat /\ name \in s.included THEN s
  ELSE LET t == plungequalifiedfile(s) IN IF s.compat THEN [t EXCEPT !.included = @ \cup {name}] ELSE t

(***************************************************************************)
(* readline(): at the end of a file the reading goes back to the file that *)
(* included it, and takes its next line.  The values come off the stack in *)
(* the reverse order.                                                      *)
(***************************************************************************)
Ended(s) == s.inpf = 0 \/ s.inpf \in s.atEnd
Left(s) ==
  LET level == Popped(s, 3)
  IN [s EXCEPT !.fline = Popped(s, 0), !.fcurrent = Popped(s, 1), !.icomment = Popped(s, 2), !.iflevel = level,
               !.skiplevel = level, !.curlibrary = Popped(s, 4), !.inpf = Popped(s, 5), !.stack = Dropped(s, 6)]
LastFile(s) == Ended(s) /\ s.stack = <<>>
Stopped(s) ==
  [s EXCEPT !.freading = FALSE, !.errors = IF s.iflevel > 0 \/ s.icomment # 0 THEN @ \cup {1} ELSE @]
readline(s, line, eof) ==
  IF s.reread THEN s
  ELSE LET t == IF Ended(s) THEN Left(s) ELSE s IN [t EXCEPT !.line = line, !.fline = (@ + 1) % Period, !.atEnd = IF eof THEN @ \cup {t.inpf} ELSE @]

\* Comments become spaces: what is left of a line has none.
stripcomment(s) ==
  IF s.icomment # 0 /\ ~s.line.close
  THEN [s EXCEPT !.line = BLANK]
  ELSE [s EXCEPT !.line.close = FALSE, !.line.open = FALSE,
                 !.icomment = IF s.line.open THEN 1 ELSE 0]

-----------------------------------------------------------------------------
(* The directives of command(), in its order. *)
If(s, cond) ==
  LET t == [s EXCEPT !.iflevel = @ + 1]
  IN IF SKIPPING(s) THEN t
     ELSE [t EXCEPT !.skiplevel = t.iflevel, !.ifstack[t.iflevel] = IF cond THEN PARSEMODE ELSE SKIPMODE]

Else(s) ==
  [s EXCEPT !.ifstack[s.iflevel] = IF Parsed(@) THEN SKIPMODE + PARSEMODE ELSE IF @ = SKIPMODE THEN 0 ELSE @]

\* The condition is only looked at on the level that decides whether lines are skipped.
ElseIf(s, cond) ==
  [s EXCEPT !.ifstack[s.iflevel] =
     IF Parsed(@) THEN SKIPMODE + PARSEMODE
     ELSE IF cond /\ s.skiplevel = s.iflevel THEN PARSEMODE ELSE SKIPMODE]

\* Plausible bug: the level that decides is left behind.
EndIfStays(s) == [s EXCEPT !.iflevel = @ - 1]

EndIf(s) ==
  [s EXCEPT !.iflevel = @ - 1, !.skiplevel = IF s.iflevel - 1 < @ THEN s.iflevel - 1 ELSE @]

\* A library that is in the table already does not become the current one.
PragmaLibrary(s, name) ==
  IF name \in s.libname_tab THEN s ELSE [s EXCEPT !.libname_tab = @ \cup {name}, !.curlibrary = name]

Unmatched(s) == [s EXCEPT !.errors = @ \cup {26}]

Directive(s) ==
  LET op == s.line.body.op
      arg == s.line.body.arg
      obey(t) == IF SKIPPING(s) THEN s ELSE t
  IN CASE op = "#if" -> If(s, arg = "true")
       [] op \in {"#else", "#elseif", "#endif"} /\ s.iflevel = 0 -> Unmatched(s)
       [] op = "#else" /\ s.iflevel > 0 -> Else(s)
       [] op = "#elseif" /\ s.iflevel > 0 -> ElseIf(s, arg = "true")
       [] op = "#endif" /\ s.iflevel > 0 -> EndIf(s)
       [] op = "#include" -> obey(doinclude(s, arg))
       [] op = "#library" -> obey(PragmaLibrary(s, arg))
       [] op = "#endinput" -> obey([s EXCEPT !.inpf = 0])
       [] OTHER -> s

\* What the parser does with a line: an expression without a semicolon is pending until
\* the next token is seen, a parenthesis saves two flags (sc3.c, primary()).
Flags == <<1, 0>>
Parsing(s) ==
  LET op == s.line.body.op
  IN CASE op = "(" -> [pushstk(s, Flags) EXCEPT !.staging = TRUE]
       [] op = ")" -> [s EXCEPT !.stack = Dropped(s, Len(Flags)), !.staging = TRUE]
       [] OTHER -> [s EXCEPT !.staging = (op = "expression")]

\* An expression that a directive ends: the parser gets its end, drops the flags of the
\* parentheses that are open, and has the line looked at again.
EndsExpression(s, body) == body \in Directives /\ ~s.needsemicolon /\ s.staging
Terminate(s, depth) == [s EXCEPT !.reread = TRUE, !.staging = FALSE, !.stack = Dropped(s, depth * Len(Flags))]

command(s, depth) ==
  CASE s.line.body = EMPTY -> s
    [] EndsExpression(s, s.line.body) -> Terminate(s, depth)
    [] s.line.body \in Directives /\ ~EndsExpression(s, s.line.body) -> Directive(s)
    [] s.line.body \in Text -> IF SKIPPING(s) THEN s ELSE Parsing(s)

\* One line of the loop of preprocess(); a line that has been dealt with is forgotten.
Forgotten(s) == IF s.reread THEN s ELSE [s EXCEPT !.line = BLANK]
preprocess(s, line, eof, depth) ==
  Forgotten(command([stripcomment(readline(s, line, eof)) EXCEPT !.reread = FALSE], depth))

-----------------------------------------------------------------------------
(* What the lines mean. *)
Opened(id, lib) == [id |-> id, line |-> 0, frames |-> <<>>, comment |-> FALSE, lib |-> lib, parens |-> 0]
Live(fs) == \A i \in DOMAIN fs : \A j \in DOMAIN fs[i].frames : fs[i].frames[j].live
Frame(live, taken, last) == [live |-> live, taken |-> taken, last |-> last]
Branch(frame, cond, last) == Frame(cond /\ ~frame.taken, frame.taken \/ cond, last)

Meaning(fs, body, s) ==
  LET n == Len(fs)
      op == body.op
      live == Live(fs)
      top == Len(fs[n].frames)
  IN CASE op = "#if" -> LET yes == live /\ body.arg = "true"
                        IN [fs EXCEPT ![n].frames = Append(@, Frame(yes, yes \/ ~live, FALSE))]
       [] op = "#else" -> [fs EXCEPT ![n].frames[top] = Branch(@, TRUE, TRUE)]
       [] op = "#elseif" -> [fs EXCEPT ![n].frames[top] = Branch(@, body.arg = "true", FALSE)]
       [] op = "#endif" -> [fs EXCEPT ![n].frames = SubSeq(@, 1, top - 1)]
       [] op = "#include" /\ live /\ ~(s.compat /\ body.arg \in s.included) ->
            Append(fs, Opened(s.fnumber + 1, fs[n].lib))
       [] op = "#library" /\ live -> [fs EXCEPT ![n].lib = body.arg]
       [] op = "(" /\ live -> [fs EXCEPT ![n].parens = @ + 1]
       [] op = ")" /\ live -> [fs EXCEPT ![n].parens = @ - 1]
       [] OTHER -> fs

Resumed(s) == IF Ended(s) THEN Front(files) ELSE files
Visible(fs, line) == IF Last(fs).comment /\ ~line.close THEN EMPTY ELSE line.body
Read(fs, line, s) ==
  LET n == Len(fs)
      cut == fs[n].comment /\ ~line.close
      ends == EndsExpression(s, Visible(fs, line))
      t == [fs EXCEPT ![n].line = (@ + 1) % Period, ![n].comment = IF cut THEN TRUE ELSE line.open,
                      ![n].parens = IF ends THEN 0 ELSE @]
  IN Meaning(t, Visible(fs, line), s)

\* The lines a file may hold at this place, and whether its end follows.
MayStand(fs, line) ==
  LET f == Last(fs)
      body == line.body
      op == body.op
      hidden == f.comment /\ ~line.close
  IN /\ line.close => f.comment
     /\ hidden => body = EMPTY /\ ~line.open
     /\ line.open => ~EndsExpression(in, body)
     /\ op = "#if" => Len(FlattenSeq([i \in DOMAIN fs |-> fs[i].frames])) < MaxNest
     /\ op \in {"#else", "#elseif"} => f.frames # <<>> /\ (OneElse => ~Last(f.frames).last)
     /\ op = "#endif" => f.frames # <<>>
     /\ op = "#include" => in.fnumber < MaxFiles
     /\ op = "#library" => body.arg \in in.libraries \ in.libname_tab
     /\ op = "#endinput" => f.parens = 0
     /\ op = "statement" => \A i \in DOMAIN fs : fs[i].parens = 0
     /\ op \in {"expression", "("} => f.parens = 0
     /\ op = ")" => f.parens > 0
MayEnd(fs, line, eof) == Last(fs).id \in in.atEnd => line = BLANK /\ eof

-----------------------------------------------------------------------------
Init ==
  /\ \E mode \in Modes :
       in = [inpf |-> 1, atEnd |-> {}, freading |-> TRUE, stack |-> <<>>, iflevel |-> 0, skiplevel |-> 0,
             ifstack |-> [i \in 1 .. MaxNest |-> 0], icomment |-> 0, fcurrent |-> 1, fnumber |-> 1, fline |-> 0,
             curlibrary |-> NONE, libname_tab |-> {}, compat |-> mode.compat, libraries |-> mode.libraries, included |-> {}, errors |-> {},
             needsemicolon |-> mode.semicolons, staging |-> FALSE, reread |-> FALSE,
             line |-> BLANK]
  /\ files = <<Opened(1, NONE)>>

\* The next line of the innermost file, or of the one that included it.
NextLine ==
  /\ in.freading /\ ~in.reread /\ ~LastFile(in)
  /\ LET fs == Resumed(in)
         s == IF Ended(in) THEN Left(in) ELSE in
         n == Len(fs)
     IN \E line \in {l \in Lines : MayStand(fs, l)}, eof \in BOOLEAN :
          /\ MayEnd(fs, line, eof)
          /\ files' = Read(fs, line, s)
          /\ eof => files'[n].parens = 0
          /\ in' = preprocess(in, line, eof, fs[n].parens)

\* The line that ended an expression is looked at again.
SameLine ==
  /\ in.freading /\ in.reread
  /\ in' = preprocess(in, in.line, FALSE, 0)
  /\ UNCHANGED files

EndOfInput ==
  /\ in.freading /\ ~in.reread /\ LastFile(in)
  /\ in' = Stopped(in)
  /\ UNCHANGED files

Next == NextLine \/ SameLine \/ EndOfInput
Spec == Init /\ [][Next]_vars

-----------------------------------------------------------------------------
(* Between two lines, what sc2.c notes agrees with what the lines mean. *)
Between == in.freading /\ ~in.reread

\* The code between directives is skipped exactly when a branch around it, in this file or
\* in one that includes it, is not taken; and every open #if is counted once (command()).
\* "If there has been a parse mode on this level, set skip mode": a branch behind one that was
\* taken is not.  The code breaks this behind an #else, whose branch is noted nowhere.
ConditionsKept ==
  Between => /\ SKIPPING(in) <=> ~Live(files)
             /\ in.iflevel = Len(FlattenSeq([i \in DOMAIN files |-> files[i].frames]))

\* After any includes, with comments and parentheses open around them, the reading stands
\* where it stood: the file, its line, its comment, its library; and the flags on top of
\* the stack are those the parser will take off (readline(), plungequalifiedfile()).
PlaceKept ==
  Between =>
    LET f == Last(files)
        n == Len(in.stack)
    IN /\ in.fcurrent = f.id /\ in.inpf \in {0, f.id}
       /\ in.fline = f.line /\ in.curlibrary = f.lib
       /\ in.icomment # 0 <=> f.comment
       /\ f.parens > 0 => n >= 2 /\ SubSeq(in.stack, n - 1, n) = Flags
=============================================================================
