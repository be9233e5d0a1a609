------------------------------- MODULE ToolCall -------------------------------
(***************************************************************************)
(* One tool call from its arguments to its result: the command it projects *)
(* to, the guest scripts of the file tools step by step                    *)
(* (internal/projection/projection.go), the exec reply, and the result     *)
(* that ExecResult projects it to.                                         *)
(*                                                                         *)
(* A file is a record of kind (missing, dir, raw: bytes that are no text,  *)
(* text) and text, a sequence of units: letters, "cr", "lf", and "half",   *)
(* half a surrogate pair, which JSON can carry and UTF-8 cannot encode.    *)
(* The guest's file system may refuse any call that can fail, and Control  *)
(* kills the command at its timeout.  A reply to bash_tool is any reply    *)
(* the guest's shell could cause.                                          *)
(***************************************************************************)
EXTENDS ExecResult

CONSTANTS
    Cases,      \* bash_tool: the commands with their replies
    FileCalls,  \* the calls of file tools: records of tool, given (arguments are
                \* present), valid (the fields the script needs are in them), old,
                \* new, ext and picture
    Files,      \* what the path may name
    NoReply     \* the command has not ended

FileToolScripts == {"create_file", "str_replace", "view"}

ASSUME ToolCallAssumption ==
    /\ \A c \in Cases : IsReply(c)
    /\ \A q \in FileCalls :
         /\ q.tool \in FileToolScripts
         /\ {q.given, q.valid} \subseteq BOOLEAN
         /\ q.old \in Seq(STRING) /\ q.new \in Seq(STRING)
         /\ {q.picture.pil, q.picture.opens, q.picture.oneLine} \subseteq BOOLEAN
         /\ q.picture.sizes \in Seq(Nat) /\ q.picture.sizes # <<>>
    /\ Files \subseteq [kind : {"missing", "dir", "raw", "text"}, text : Seq(STRING)]

VARIABLES
    req,        \* the call
    pc,         \* start, a step of a script, replied, done
    file,       \* what the path names
    buffer,     \* new_content of str_replace
    before,     \* history: what the path named at first
    fault       \* history: none; io, a file operation failed; encode; killed

vars == <<call, result, req, pc, file, buffer, before, fault>>

Shell0 == [tool |-> "bash_tool", given |-> TRUE]
Missing == [kind |-> "missing", text |-> <<>>]
TextFile(t) == [kind |-> "text", text |-> t]

Init ==
    /\ result = None /\ buffer = <<>> /\ fault = "none"
    /\ \/ /\ req = Shell0 /\ call \in Cases /\ pc = "replied" /\ file = Missing
       \/ /\ req = [Shell0 EXCEPT !.given = FALSE] /\ call = NoReply /\ pc = "start" /\ file = Missing
       \/ /\ req \in FileCalls /\ call = NoReply /\ pc = "start" /\ file \in Files
    /\ before = file

-------------------------------------------------------------------------------
(* From arguments to a command, and from a reply to the result *)

\* projection.Project: a shell line needs a command, a script its arguments.
Projects(q) == q.tool \in FileToolScripts \cup {"bash_tool"} /\ q.given

\* Without a projection the session is created and nothing is run.
CreateOnly ==
    /\ pc = "start" /\ ~Projects(req)
    /\ result' = [kind |-> "correlation", isError |-> FALSE, text |-> <<>>, note |-> FALSE]
    /\ pc' = "done"
    /\ UNCHANGED <<call, req, file, buffer, before, fault>>

Exec ==
    /\ pc = "start" /\ Projects(req)
    /\ pc' = req.tool
    /\ UNCHANGED <<call, result, req, file, buffer, before, fault>>

\* The reply to a script that ends: what it printed is on stdout.
Ends(exit, out, image, truncated) ==
    /\ call' = [argv |-> NotShell, exit |-> exit, decodes |-> TRUE, image |-> image,
                stdout |-> out, stderr |-> <<>>, stdoutTruncated |-> truncated,
                stderrTruncated |-> FALSE]
    /\ pc' = "replied"
    /\ UNCHANGED <<result, req, before>>

Line == <<"x">>
Succeeds == Ends(0, Line, FALSE, FALSE)
\* The script prints an error line and exits with 1.
Errors(why) == Ends(1, Line, FALSE, FALSE) /\ fault' = why

Encodes(t) == "half" \notin ToSet(t)

\* What a write of t at the start leaves of a longer file.
Over(t, old) == t \o SubSeq(old, Len(t) + 1, Len(old))

\* What a write of t that does not come to its end leaves: as much as was flushed.  A
\* text that has no encoding never reaches the file.
Flushed(t) ==
    IF Encodes(t) THEN {TextFile(Over(p, file.text)) : p \in Prefixes(t)} ELSE {file}

Goes(label) == pc' = label /\ UNCHANGED <<call, result, req, before>>

Relay ==
    /\ pc = "replied"
    /\ result' = projectCallToolResult(call)
    /\ pc' = "done"
    /\ UNCHANGED <<call, req, file, buffer, before, fault>>

-------------------------------------------------------------------------------
(* create_file *)

\* Arguments, parents and the open without truncation, which creates a missing file; any
\* of them may fail.
CreateOpen ==
    /\ pc = "create_file"
    /\ UNCHANGED buffer
    /\ \/ Errors("none") /\ UNCHANGED file
       \/ /\ req.valid /\ file.kind # "dir"
          /\ file' = IF file.kind = "missing" THEN TextFile(<<>>) ELSE file
          /\ Goes("create.cut") /\ UNCHANGED fault

CreateCut ==
    /\ pc = "create.cut"
    /\ UNCHANGED buffer
    /\ \/ Errors("io") /\ UNCHANGED file
       \/ file' = TextFile(<<>>) /\ Goes("create.write") /\ UNCHANGED fault

\* The text is encoded into a buffer, which the close flushes.
CreateWrite ==
    /\ pc = "create.write"
    /\ UNCHANGED buffer
    /\ \/ ~Encodes(req.new) /\ Errors("encode") /\ UNCHANGED file
       \/ /\ Encodes(req.new)
          /\ \/ file' = TextFile(req.new) /\ Succeeds /\ UNCHANGED fault
             \/ Errors("io") /\ file' \in Flushed(req.new)

-------------------------------------------------------------------------------
(* str_replace *)

\* Reading in text mode: a "cr", alone or before a "lf", is read as one "lf".
Universal(t) ==
    LET read[i \in 0..Len(t)] ==
          IF i = 0 THEN <<>>
          ELSE IF t[i] = "cr" THEN Append(read[i - 1], "lf")
          ELSE IF t[i] = "lf" /\ i > 1 /\ t[i - 1] = "cr" THEN read[i - 1]
          ELSE Append(read[i - 1], t[i])
    IN  read[Len(t)]

At(t, old, i) == SubSeq(t, i, i + Len(old) - 1) = old
Matches(t, old) == {i \in 1..(Len(t) - Len(old) + 1) : At(t, old, i)}

\* str.count: matches that do not overlap, found from the left; the empty string is
\* found around every unit.
count(t, old) ==
    LET from[i \in 1..(Len(t) + Len(old) + 1)] ==
          IF i > Len(t) THEN 0
          ELSE IF i \in Matches(t, old) THEN 1 + from[i + Len(old)] ELSE from[i + 1]
    IN  IF old = <<>> THEN Len(t) + 1 ELSE from[1]

\* str.replace with a count of one: the first match.
replace(t, old, new) ==
    LET i == Min(Matches(t, old))
    IN  SubSeq(t, 1, i - 1) \o new \o SubSeq(t, i + Len(old), Len(t))

\* A read that fails and the three refusals; else the new content is ready.
ReplaceRead ==
    /\ pc = "str_replace"
    /\ UNCHANGED file
    /\ LET content == Universal(file.text)
           refused == \/ ~req.valid \/ req.old = req.new \/ file.kind # "text"
                      \/ Matches(content, req.old) = {} \/ count(content, req.old) > 1
       IN  \/ Errors("none") /\ UNCHANGED buffer
           \/ /\ ~refused
              /\ buffer' = replace(content, req.old, req.new)
              /\ Goes("replace.write") /\ UNCHANGED fault

\* The reopen for update, and the write, which truncate() flushes.
ReplaceWrite ==
    /\ pc = "replace.write"
    /\ UNCHANGED buffer
    /\ \/ Errors("none") /\ UNCHANGED file
       \/ ~Encodes(buffer) /\ Errors("encode") /\ UNCHANGED file
       \/ /\ Encodes(buffer)
          /\ \/ /\ file' = TextFile(Over(buffer, file.text))
                /\ Goes("replace.cut") /\ UNCHANGED fault
             \/ Errors("io") /\ file' \in Flushed(buffer)

\* Mutant: the edited file is not truncated.
ReplaceCutSkipped ==
    /\ pc = "replace.cut"
    /\ UNCHANGED <<buffer, file>>
    /\ Errors("io") \/ (Succeeds /\ UNCHANGED fault)

ReplaceCut ==
    /\ pc = "replace.cut"
    /\ UNCHANGED buffer
    /\ \/ Errors("io") /\ UNCHANGED file
       \/ file' = TextFile(buffer) /\ Succeeds /\ UNCHANGED fault

-------------------------------------------------------------------------------
(* view *)

RAW_JPEG_BUDGET == 45000
controlReplyStreamCeiling == 65536
base64(n) == 4 * ((n + 2) \div 3)
\* Bytes of the line with the sentinel and the path, at the least and at PATH_MAX.
SentinelLines == {26, 4121}

\* Mutant: the first encoding is sent, whatever its size.
render_imageFirst(sizes) == Head(sizes)

\* The sizes of the encodings in the order the loops try them: the first within the
\* budget, or the last.
render_image(sizes) ==
    LET fitting == {i \in DOMAIN sizes : sizes[i] <= RAW_JPEG_BUDGET}
    IN  IF fitting = {} THEN Last(sizes) ELSE sizes[Min(fitting)]

isfile == file.kind \in {"text", "raw"}

\* A directory is listed and a text numbered line by line, whatever its name; Control
\* may cut either.
Shown == LET out == IF file.kind = "text" /\ file.text = <<>> THEN <<>> ELSE Line
         IN  \E truncated \in {FALSE, out # <<>>} : Ends(0, out, FALSE, truncated)

\* An image that PIL opens is sent as a JPEG, which the frame of the sentinel holds when
\* the path is one line; a binary format is refused with a hint.
View ==
    /\ pc = "view"
    /\ UNCHANGED <<file, buffer>>
    /\ \/ Errors("none") /\ (~req.valid \/ file.kind = "missing")
       \/ Errors("io") /\ file.kind # "missing"
       \/ Errors("none") /\ req.valid /\ isfile /\ req.ext = "binary"
       \/ /\ req.valid /\ isfile /\ req.ext = "image"
          /\ \/ ~req.picture.pil /\ Succeeds /\ UNCHANGED fault
             \/ req.picture.pil /\ ~req.picture.opens /\ Errors("none")
             \/ /\ req.picture.pil /\ req.picture.opens
                /\ \E n \in SentinelLines, cut \in BOOLEAN :
                     /\ cut <=> n + base64(render_image(req.picture.sizes)) > controlReplyStreamCeiling
                     /\ Ends(0, Line, req.picture.oneLine, cut)
                /\ UNCHANGED fault
       \/ /\ req.valid /\ (file.kind = "dir" \/ (isfile /\ req.ext = "none"))
          /\ Shown /\ UNCHANGED fault

-------------------------------------------------------------------------------
Scripts == FileToolScripts \cup {"create.cut", "create.write", "replace.write", "replace.cut"}

\* The exec timeout: the guest's child is killed, between two steps or inside a write,
\* and has printed nothing yet.
Killed ==
    /\ pc \in Scripts
    /\ Ends(137, <<>>, FALSE, FALSE)
    /\ fault' = "killed"
    /\ \/ UNCHANGED file
       \/ pc = "create.write" /\ file' \in Flushed(req.new)
       \/ pc = "replace.write" /\ file' \in Flushed(buffer)
    /\ UNCHANGED buffer

Next ==
    \/ CreateOnly \/ Exec \/ Relay \/ Killed
    \/ CreateOpen \/ CreateCut \/ CreateWrite
    \/ ReplaceRead \/ ReplaceWrite \/ ReplaceCut
    \/ View

Spec == Init /\ [][Next]_vars

-------------------------------------------------------------------------------
(* Properties *)

\* old overlaps itself: two of its occurrences can share units.
SelfOverlapping(old) == \E n \in 1..(Len(old) - 1) : SubSeq(old, 1, n) = SubSeq(old, Len(old) - n + 1, Len(old))

\* The texts an edit of t may give: one of the places that hold the old text is replaced,
\* and there is no other place unless places can share units.
Edits(q, t) ==
    LET n == Len(q.old)
        places == {i \in 0..(Len(t) - n) : SubSeq(t, i + 1, i + n) = q.old}
    IN  {SubSeq(t, 1, i) \o q.new \o SubSeq(t, i + n + 1, Len(t)) :
            i \in {j \in places : SelfOverlapping(q.old) \/ places = {j}}}

\* The text u is a beginning of e, and what b had beyond it.
Partly(e, b, u) == \E n \in 0..Len(e) : u = SubSeq(e, 1, n) \o SubSeq(b, n + 1, Len(b))

\* What an error may leave behind once a script has begun to write: of a create a
\* beginning of the new text, and nothing of a text without an encoding; of an edit a
\* beginning of the edited text over the old one.
LeftBehind ==
    /\ fault \in {"io", "killed", "encode"} /\ file.kind = "text"
    /\ IF req.tool = "create_file"
       THEN Partly(req.new, <<>>, file.text) /\ (fault = "encode" => file.text = <<>>)
       ELSE /\ fault # "encode"
            /\ \E e \in Edits(req, Universal(before.text)) : Partly(e, before.text, file.text)

\* What a caller is told about a file is what is on disk.  A success left exactly the
\* text asked for: the new one, or an edit of the text as Python reads it, with the line
\* ends rewritten.  An error left the file as it was, or, when a file operation failed
\* or the command was killed once the file was open, no more and no other than the
\* beginning of what it was to write.
FileAsAsked ==
    pc = "done" /\ result.kind = "text" /\ req.tool \in {"create_file", "str_replace"} =>
        IF result.isError THEN file = before \/ LeftBehind
        ELSE IF req.tool = "create_file" THEN file = TextFile(req.new)
        ELSE file.kind = "text" /\ file.text \in Edits(req, Universal(before.text))

\* A picture that one of the encodings brings within the budget is shown whole, however
\* long its path if that is one line, and a picture that none does is shown whole or said
\* to be cut; a view changes nothing.
PictureShown ==
    pc = "done" /\ req.tool = "view" /\ fault = "none" =>
        /\ file = before
        /\ result.kind = "image" => req.ext = "image" /\ isfile
        /\ req.given /\ req.valid /\ isfile /\ req.ext = "image" /\ req.picture.pil /\ req.picture.opens =>
             \/ result.kind = "image" \/ ~req.picture.oneLine
             \/ result.note /\ \A i \in DOMAIN req.picture.sizes : req.picture.sizes[i] > RAW_JPEG_BUDGET
===============================================================================
