------------------------------ MODULE ExecResult ------------------------------
(***************************************************************************)
(* The projection of Control's exec reply to the CallToolResult a caller   *)
(* reads (internal/forward/http.go, projectCallToolResult and what it      *)
(* calls).  ToolCall has the steps that lead to a reply and past it.       *)
(*                                                                         *)
(* A command line is a sequence of units: a program of the exit-code table *)
(* ("grep"), any other program ("false"), an assignment ("VAR=1"), a       *)
(* program whose path holds a "=" ("./a=1"), a launcher ("sudo"), a blank, *)
(* a control operator ("op", which stands for any of ; & |), a newline,    *)
(* the two quotes and the backslash.  A stream is a sequence of bytes: "x" *)
(* an ASCII byte, "lead" and "cont" the bytes of a longer rune.            *)
(***************************************************************************)
EXTENDS Integers, Sequences, SequencesExt, FiniteSets, FiniteSetsExt

CONSTANTS
    NotShell,   \* the argv of a tool that runs no shell line
    MaxContent, \* maxExecContentBytes
    None        \* no result yet

ASSUME ExecResultAssumption == MaxContent \in Nat \ {0}

\* An exec and Control's reply to it; the streams are bytes, of whole runes or not.
Bytes == {"x", "lead", "cont"}
IsReply(c) ==
    /\ c.argv # NotShell => c.argv \in Seq(STRING)
    /\ c.exit \in Nat
    /\ {c.decodes, c.image, c.stdoutTruncated, c.stderrTruncated} \subseteq BOOLEAN
    /\ c.stdout \in Seq(Bytes) /\ c.stderr \in Seq(Bytes)

VARIABLES
    call,       \* the argv and the reply: a record of argv, exit, decodes, image,
                \* stdout, stderr, stdoutTruncated and stderrTruncated
    result      \* the CallToolResult, or "refused" for ErrForwardFailed

-------------------------------------------------------------------------------
(* The exit-code semantics *)

Blank == {" ", "newline"}

\* strings.Fields: the maximal runs of units between blanks, as <<first unit, last unit>>.
Fields(line) ==
    {f \in (DOMAIN line) \X (DOMAIN line) :
        /\ f[1] <= f[2]
        /\ \A i \in f[1]..f[2] : line[i] \notin Blank
        /\ f[1] = 1 \/ line[f[1] - 1] \in Blank
        /\ f[2] = Len(line) \/ line[f[2] + 1] \in Blank}

Token(line, f) == SubSeq(line, f[1], f[2])

\* The fields that hold no "=" and are no launcher.
RealTokens(line) ==
    {f \in Fields(line) : /\ ~Contains(Token(line, f), "VAR=1")
                          /\ ~Contains(Token(line, f), "./a=1")
                          /\ Token(line, f) # <<"sudo">>}

\* The first of them.
firstCommandFromArgv(line) ==
    LET real == RealTokens(line)
    IN  IF real = {} THEN <<>>
        ELSE Token(line, CHOOSE f \in real : \A g \in real : f[1] <= g[1])

\* Mutant: a compound line is taken for a single command.
isSingleSimpleCommandAlways(line) == TRUE

\* No newline, and no operator outside quotes.  A quote opens or closes unless the
\* other kind is open; the scan knows no backslash.
isSingleSimpleCommand(line) ==
    LET open[i \in 0..Len(line)] ==
          IF i = 0 THEN ""
          ELSE IF line[i] \notin {"squote", "dquote"} THEN open[i - 1]
          ELSE IF open[i - 1] = "" THEN line[i]
          ELSE IF open[i - 1] = line[i] THEN "" ELSE open[i - 1]
    IN  \A i \in DOMAIN line : line[i] # "newline" /\ (line[i] = "op" => open[i] # "")

\* commandSemantics: below the threshold, a program of the table has not failed.
threshold == 2
Benign(argv, exit) ==
    /\ argv # NotShell
    /\ firstCommandFromArgv(argv) = <<"grep">>
    /\ exit < threshold
    /\ isSingleSimpleCommand(argv)

-------------------------------------------------------------------------------
(* projectCallToolResult *)

\* Mutant: the cut ignores rune boundaries.
boundContentBytes(s) == IF Len(s) <= MaxContent THEN s ELSE SubSeq(s, 1, MaxContent)

\* The cut backs off to a byte that starts a rune.
boundContent(s) ==
    IF Len(s) <= MaxContent THEN s
    ELSE SubSeq(s, 1, Max({c \in 0..MaxContent : c = 0 \/ s[c + 1] # "cont"}))

\* The message of the table and the exit-code marker, both short.
Message == <<"x">>

\* Mutant: the flag of stdout is used whichever stream is relayed.
controlTruncatedStdout(c, isErr) == c.stdoutTruncated

\* Control's truncation flag for the stream that is relayed.
controlTruncated(c, isErr) ==
    IF isErr /\ c.stderr # <<>> THEN c.stderrTruncated ELSE c.stdoutTruncated

\* Mutant: a failure without output is relayed without its exit code.
TextSilent(c, isErr) ==
    IF isErr THEN (IF c.stderr # <<>> THEN c.stderr ELSE c.stdout)
    ELSE IF c.exit # 0 /\ c.stdout = <<>> THEN Message ELSE c.stdout

\* The text to relay: on an error stderr, or stdout, or the exit code; on a benign
\* exit stdout or the table's message; otherwise stdout.
Text(c, isErr) ==
    IF isErr THEN (IF c.stderr # <<>> THEN c.stderr
                   ELSE IF c.stdout # <<>> THEN c.stdout ELSE Message)
    ELSE IF c.exit # 0 /\ c.stdout = <<>> THEN Message ELSE c.stdout

TextResult(c) ==
    LET isErr == c.exit # 0 /\ ~Benign(c.argv, c.exit)
        text == Text(c, isErr)
        bounded == boundContent(text)
    IN  [kind |-> "text", isError |-> isErr, text |-> bounded,
         note |-> controlTruncated(c, isErr) \/ Len(bounded) < Len(text)]

\* An image is projected on success, from a whole stdout that holds a JPEG.
projectCallToolResult(c) ==
    IF ~c.decodes THEN [kind |-> "refused", isError |-> TRUE, text |-> <<>>, note |-> FALSE]
    ELSE IF c.exit = 0 /\ ~c.stdoutTruncated /\ c.image
    THEN [kind |-> "image", isError |-> FALSE, text |-> c.stdout, note |-> FALSE]
    ELSE TextResult(c)

-------------------------------------------------------------------------------
(* The guest's shell, by the rules of sh and independent of the scans above: which *)
(* command of a line decides its exit                                              *)

\* The state of the shell's reader after each unit.  A backslash takes the next unit
\* out of the syntax, except in single quotes; a unit is bare when it is syntax or
\* stands in no quotes.
Reader(line) ==
    LET at[i \in 0..Len(line)] ==
          IF i = 0 THEN [open |-> "", esc |-> FALSE, bare |-> FALSE]
          ELSE LET p == at[i - 1]
                   u == line[i]
               IN  CASE p.esc -> [p EXCEPT !.esc = FALSE, !.bare = FALSE]
                     [] ~p.esc /\ u = "backslash" /\ p.open # "squote" ->
                          [p EXCEPT !.esc = TRUE, !.bare = FALSE]
                     [] ~p.esc /\ u \in {"squote", "dquote"} /\ p.open \in {"", u} ->
                          [p EXCEPT !.open = IF @ = "" THEN u ELSE "", !.bare = FALSE]
                     [] OTHER -> [p EXCEPT !.bare = p.open = ""]
    IN  at

\* The words of a line as <<first unit, last unit>>, and the command each belongs to:
\* the number of operators before it.
Shell(line) ==
    LET at == Reader(line)
        bare == {i \in DOMAIN line : at[i].bare}
        ops == {i \in bare : line[i] \in {"op", "newline"}}
        gaps == {i \in bare : line[i] \in Blank \cup {"op"}}
        starts == {i \in (DOMAIN line) \ gaps : i = 1 \/ i - 1 \in gaps}
        finish(i) == Min({Len(line)} \cup {j - 1 : j \in {g \in gaps : g > i}})
        word(i) == [first |-> i,
                    units |-> SubSeq(line, i, finish(i)),
                    command |-> Cardinality({o \in ops : o < i}),
                    assigns |-> \E k \in i..finish(i) :
                                  /\ line[k] = "VAR=1" /\ i..k \subseteq bare
                                  /\ \A x \in i..k : line[x] # "./a=1"]
    IN  [words |-> {word(i) : i \in starts},
         \* an open quote, a backslash at the end, or an operator after no command
         wrong |-> \/ at[Len(line)].open # "" \/ at[Len(line)].esc
                   \/ \E o \in ops : line[o] = "op" /\ ~\E i \in starts :
                        i < o /\ \A n \in ops : n < o => n < i]

\* The words of the last command.
LastCommand(sh) ==
    {w \in sh.words : \A v \in sh.words : v.command <= w.command}

\* The program whose exit is the line's: of the last command, the first word that is
\* neither an assignment nor a launcher, which hands on the exit of what it launches.
Deciding(sh) ==
    LET real == {w \in LastCommand(sh) : ~w.assigns /\ w.units # <<"sudo">>}
    IN  IF real = {} THEN <<>>
        ELSE (CHOOSE w \in real : \A v \in real : w.first <= v.first).units

\* The exits a line can have: 2 if it does not parse, 0 if it runs nothing.
PossibleExit(line, exit) ==
    LET sh == Shell(line)
    IN  IF sh.wrong THEN exit = 2
        ELSE (\A w \in LastCommand(sh) : w.assigns) => exit = 0

-------------------------------------------------------------------------------
(* Properties *)

\* A failure is never relayed as a success: a nonzero exit loses its isError only if
\* the program that decided it is one of the table's.
Masked ==
    /\ result # None /\ result.kind = "text"
    /\ call.exit # 0 /\ ~result.isError
    /\ Deciding(Shell(call.argv)) # <<"grep">>

\* The field splitting and the quote scan agree with the shell on the lines that
\* escape no quote and no blank, quote or escape no part of a field with an assignment,
\* and name no program with a "=" in its path before the command.
Plain(line) ==
    /\ \A i \in 2..Len(line) :
         line[i - 1] = "backslash" => line[i] \notin Blank \cup {"squote", "dquote"}
    /\ \A f \in Fields(line) :
         Contains(Token(line, f), "VAR=1") =>
            ToSet(Token(line, f)) \cap {"squote", "dquote", "backslash"} = {}
    /\ \A f \in Fields(line) :
         Contains(Token(line, f), "./a=1") => \E g \in RealTokens(line) : g[1] < f[1]

\* On plain lines no failure is masked: a compound line, a program the table does not
\* have and a failure past the threshold stay errors.
ErrorsStayVisible == Masked => ~Plain(call.argv)

\* An error the model reads always says something.
NeverSilent ==
    result # None /\ result.kind = "text" /\ result.isError => result.text # <<>> \/ result.note

\* What the guest wrote to the stream that is relayed reaches the caller whole, or the
\* caller is told: an image is never part of one, a text that Control or the gateway
\* cut carries the note, and a whole one does not.
TruncationAnnounced ==
    LET relayed == IF call.exit # 0 /\ result.isError /\ call.stderr # <<>>
                   THEN [s |-> call.stderr, cut |-> call.stderrTruncated]
                   ELSE [s |-> call.stdout, cut |-> call.stdoutTruncated]
    IN  /\ result # None /\ result.kind = "image" => ~relayed.cut
        /\ result # None /\ result.kind = "text" /\ relayed.s # <<>> =>
             (result.note <=> relayed.cut \/ result.text # relayed.s)

\* A stream of whole runes.
Runes(s) ==
    \A i \in 1..Len(s) :
        /\ s[i] = "lead" => i < Len(s) /\ s[i + 1] = "cont"
        /\ s[i] = "cont" => i > 1 /\ s[i - 1] = "lead"

\* A text is at most MaxContent bytes.  If the streams are of whole runes it ends with
\* one, and the cut costs no more than the rune it would split.
WholeRunes ==
    result # None /\ result.kind = "text" =>
        /\ Len(result.text) <= MaxContent
        /\ Runes(call.stdout) /\ Runes(call.stderr) =>
             /\ result.text # <<>> => Last(result.text) # "lead"
             /\ Len(result.text) < MaxContent - 1 =>
                  result.text \in {call.stdout, call.stderr, Message}

===============================================================================
