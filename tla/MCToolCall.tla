------------------------------ MODULE MCToolCall ------------------------------
(***************************************************************************)
(* TLC instance of ToolCall.                                               *)
(***************************************************************************)
EXTENDS ToolCall

CONSTANTS Units, MaxLine    \* the units of a line, and how many it has at most

Exits == {0, 1, 2, 137}

\* A command word that holds a "=" is told from the others on lines of two units less.
Lines ==
    UNION {[1..n -> Units] : n \in 0..MaxLine}
    \cup UNION {[1..n -> Units \cup {"./a=1"}] : n \in 1..(MaxLine - 2)}

Streams == {<<>>, <<"x">>, <<"lead", "cont">>, <<"x", "x", "x">>, <<"x", "lead", "cont">>,
            <<"x", "x", "lead", "cont">>, <<"lead", "cont", "lead", "cont">>,
            <<"cont", "cont", "cont", "lead">>}

Reply(argv, exit, out, err) ==
    [argv |-> argv, exit |-> exit, decodes |-> TRUE, image |-> FALSE,
     stdout |-> out, stderr |-> err, stdoutTruncated |-> FALSE, stderrTruncated |-> FALSE]

\* Every line, with the exits it can have.
LineCases == {Reply(line, exit, <<>>, <<>>) : line \in Lines, exit \in {1, 2}}

\* Every reply, to a line of the table, another line and a call without a shell.
ReplyCases ==
    [argv : {<<"grep">>, <<"false">>, NotShell}, exit : Exits, decodes : BOOLEAN,
     image : BOOLEAN, stdout : Streams, stderr : Streams,
     stdoutTruncated : BOOLEAN, stderrTruncated : BOOLEAN]

MCCases == {c \in LineCases \cup ReplyCases : c.argv # NotShell => PossibleExit(c.argv, c.exit)}

\* The file tools: every edit of every short text, pictures of every class.
Letters == {"a", "b"}
Texts(n) == UNION {[1..k -> Letters] : k \in 0..n}
Odd == {<<"a", "cr", "lf", "b">>, <<"cr", "a">>, <<"a", "lf">>}
NoPicture == [pil |-> TRUE, opens |-> TRUE, oneLine |-> TRUE, sizes |-> <<45000>>]

Tool(tool, old, new) ==
    [tool |-> tool, given |-> TRUE, valid |-> TRUE, old |-> old, new |-> new, ext |-> "none",
     picture |-> NoPicture]

Pictures == [pil : BOOLEAN, opens : BOOLEAN, oneLine : BOOLEAN,
             sizes : [1..2 -> {45000, 45001, 49000, 60000}]]

GoodCalls ==
    {Tool("create_file", <<>>, t) : t \in Texts(2) \cup {<<"a", "half">>}}
    \cup {Tool("str_replace", old, new) :
            old \in Texts(2) \cup {<<"lf">>}, new \in Texts(2) \cup {<<"half">>}}
    \cup {[Tool("view", <<>>, <<>>) EXCEPT !.ext = ext, !.picture = p] :
            ext \in {"image", "binary", "none"}, p \in Pictures}

MCFileCalls ==
    GoodCalls
    \cup {[c EXCEPT !.valid = FALSE] : c \in {d \in GoodCalls : d.new = <<>> /\ d.old = <<>>}}
    \cup {[Tool(t, <<>>, <<>>) EXCEPT !.given = FALSE] : t \in FileToolScripts}

MCFiles ==
    {Missing, [kind |-> "dir", text |-> <<>>], [kind |-> "raw", text |-> <<>>]}
    \cup {TextFile(t) : t \in Texts(4) \cup Odd}
===============================================================================
