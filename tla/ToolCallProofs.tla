---------------------------- MODULE ToolCallProofs ----------------------------
(***************************************************************************)
(* Proofs about ToolCall and the projection of ExecResult, for any set of  *)
(* commands, replies, files, texts and pictures: an error says something,  *)
(* a cut is announced and keeps runes whole, a picture within the budget   *)
(* is shown, what is said about a file is what is on disk, and a failure   *)
(* of a plain line stays an error.                                         *)
(***************************************************************************)
EXTENDS ToolCall, SequenceTheorems, FiniteSetTheorems, WellFoundedInduction, TLAPS

-------------------------------------------------------------------------------
(* Least and greatest numbers: the induction the proofs below use *)

LEMMA LeastExists ==
  ASSUME NEW T \in SUBSET Nat, T # {}
  PROVE  \E x \in T : \A y \in T : x <= y
  <1> DEFINE R == OpToRel(<, Nat)
  <1>1. \A x, y \in Nat : x < y => <<x, y>> \in R
    BY DEF OpToRel
  <1>2. IsWellFoundedOn(R, Nat)
    BY NatLessThanWellFounded
  <1> HIDE DEF R
  <1>3. PICK x \in T : \A y \in T : ~(<<y, x>> \in R)
    BY <1>2, WFMin
  <1>4. ASSUME NEW y \in T
        PROVE  x <= y
    <2>1. ~(y < x)
      BY <1>1, <1>3
    <2> QED BY <2>1
  <1> QED BY <1>4

LEMMA GreatestExists ==
  ASSUME NEW n \in Nat, NEW T \in SUBSET (0..n), T # {}
  PROVE  \E x \in T : \A y \in T : x >= y
  <1> DEFINE U == {k \in Nat : \E t \in T : k + t = n}
  <1>1. U \in SUBSET Nat
    OBVIOUS
  <1>2. U # {}
    <2>1. PICK t \in T : TRUE
      OBVIOUS
    <2>2. n - t \in U
      OBVIOUS
    <2> QED BY <2>2
  <1>3. PICK k \in U : \A j \in U : k <= j
    <2> HIDE DEF U
    <2> QED BY <1>1, <1>2, LeastExists
  <1>4. PICK t \in T : k + t = n
    OBVIOUS
  <1>5. ASSUME NEW y \in T
        PROVE  t >= y
    <2>1. n - y \in U
      OBVIOUS
    <2>2. k <= n - y
      BY <1>3, <2>1
    <2> QED BY <2>2, <1>4
  <1> QED BY <1>5

\* Min and Max are what their names say.
LEMMA MinIsLeast ==
  ASSUME NEW T \in SUBSET Nat, T # {}
  PROVE  Min(T) \in T /\ \A y \in T : Min(T) <= y
  BY LeastExists DEF Min

LEMMA MaxIsGreatest ==
  ASSUME NEW n \in Nat, NEW T \in SUBSET (0..n), T # {}
  PROVE  Max(T) \in T /\ \A y \in T : Max(T) >= y
  BY GreatestExists DEF Max

-------------------------------------------------------------------------------
(* What boundContent cuts *)

\* A text within the ceiling is kept; another is cut at the last byte that starts a
\* rune, at MaxContent at the latest.
LEMMA Bounded ==
  ASSUME NEW s \in Seq(Bytes)
  PROVE  /\ boundContent(s) \in Seq(Bytes)
         /\ Len(boundContent(s)) <= MaxContent
         /\ Len(s) <= MaxContent => boundContent(s) = s
         /\ Len(s) > MaxContent =>
              \E m \in 0..MaxContent :
                /\ boundContent(s) = SubSeq(s, 1, m) /\ Len(boundContent(s)) = m
                /\ m = 0 \/ s[m + 1] # "cont"
                /\ \A c \in 0..MaxContent : c > m => s[c + 1] = "cont"
  <1>1. MaxContent \in Nat /\ Len(s) \in Nat
    BY ExecResultAssumption, LenProperties
  <1>2. CASE Len(s) <= MaxContent
    <2>1. boundContent(s) = s
      BY <1>2 DEF boundContent
    <2> QED BY <1>1, <1>2, <2>1
  <1>3. CASE Len(s) > MaxContent
    <2> DEFINE T == {c \in 0..MaxContent : c = 0 \/ s[c + 1] # "cont"}
               m == Max(T)
    <2>1. T \in SUBSET (0..MaxContent) /\ 0 \in T
      BY <1>1
    <2>2. m \in T /\ \A y \in T : m >= y
      <3> HIDE DEF T
      <3>1. T # {}
        BY <2>1
      <3> QED BY <1>1, <2>1, <3>1, MaxIsGreatest
    <2>3. boundContent(s) = SubSeq(s, 1, m)
      <3>1. ~(Len(s) <= MaxContent)
        BY <1>1, <1>3
      <3> QED BY <3>1, Zenon DEF boundContent
    <2>4. m \in 0..MaxContent /\ (m = 0 \/ s[m + 1] # "cont")
      BY <2>2
    <2>5. ASSUME NEW c \in 0..MaxContent, c > m
          PROVE  s[c + 1] = "cont"
      <3>1. c \notin T
        <4> HIDE DEF T
        <4> QED BY <2>2, <2>4, <2>5
      <3> QED BY <3>1
    <2> HIDE DEF m
    <2>6. m \in 0..Len(s)
      BY <1>1, <1>3, <2>4
    <2>7. SubSeq(s, 1, m) \in Seq(Bytes) /\ Len(SubSeq(s, 1, m)) = m
      BY <1>1, <2>6, SubSeqProperties
    <2> QED BY <1>1, <1>3, <2>3, <2>4, <2>5, <2>7
  <1> QED BY <1>1, <1>2, <1>3

-------------------------------------------------------------------------------
(* The projected result *)

\* The result of a reply that decodes and is no picture, by whether it is an error.
LEMMA TextShape ==
  ASSUME NEW c, IsReply(c)
  PROVE  LET isErr == c.exit # 0 /\ ~Benign(c.argv, c.exit)
             text == Text(c, isErr)
         IN  /\ TextResult(c).kind = "text"
             /\ TextResult(c).isError <=> isErr
             /\ TextResult(c).text = boundContent(text)
             /\ TextResult(c).note <=>
                    controlTruncated(c, isErr) \/ Len(boundContent(text)) < Len(text)
  BY DEF TextResult

LEMMA Shapes ==
  ASSUME NEW c, IsReply(c)
  PROVE  LET r == projectCallToolResult(c)
         IN  /\ r.kind \in {"refused", "image", "text"}
             /\ r.kind = "text" => c.decodes /\ r = TextResult(c)
             /\ r.kind = "image" => c.exit = 0 /\ ~c.stdoutTruncated /\ c.image
             /\ c.decodes /\ ~(c.exit = 0 /\ ~c.stdoutTruncated /\ c.image)
                  => r = TextResult(c)
             /\ c.decodes /\ c.exit = 0 /\ ~c.stdoutTruncated /\ c.image
                  => r.kind = "image" /\ ~r.isError
  BY DEF projectCallToolResult, TextResult

\* Which stream a text is cut from, and which truncation flag goes with it.
LEMMA TextSource ==
  ASSUME NEW c, IsReply(c)
  PROVE  \E t \in {c.stdout, c.stderr, Message} :
           /\ TextResult(c).text = boundContent(t)
           /\ TextResult(c).isError => t # <<>> /\ c.exit # 0
           /\ TextResult(c).isError /\ c.stderr # <<>> =>
                /\ t = c.stderr
                /\ TextResult(c).note <=> c.stderrTruncated \/ Len(boundContent(t)) < Len(t)
           /\ ~(TextResult(c).isError /\ c.stderr # <<>>) =>
                /\ c.stdout # <<>> => t = c.stdout
                /\ TextResult(c).note <=> c.stdoutTruncated \/ Len(boundContent(t)) < Len(t)
  <1>1. CASE c.exit # 0 /\ ~Benign(c.argv, c.exit)
    <2>1. PICK t : t = IF c.stderr # <<>> THEN c.stderr
                       ELSE IF c.stdout # <<>> THEN c.stdout ELSE Message
      OBVIOUS
    <2>2. Text(c, c.exit # 0 /\ ~Benign(c.argv, c.exit)) = t
      BY <1>1, <2>1 DEF Text
    <2>3. controlTruncated(c, c.exit # 0 /\ ~Benign(c.argv, c.exit)) <=>
            IF c.stderr # <<>> THEN c.stderrTruncated ELSE c.stdoutTruncated
      BY <1>1 DEF controlTruncated
    <2>4. TextResult(c).isError /\ TextResult(c).text = boundContent(t)
      BY <1>1, <2>2, TextShape
    <2>5. TextResult(c).note <=> \/ IF c.stderr # <<>> THEN c.stderrTruncated ELSE c.stdoutTruncated
                                 \/ Len(boundContent(t)) < Len(t)
      BY <2>2, <2>3, TextShape
    <2>6. t # <<>> /\ t \in {c.stdout, c.stderr, Message}
      BY <2>1 DEF Message
    <2>7. c.stderr # <<>> => t = c.stderr
      BY <2>1
    <2>8. c.stderr = <<>> /\ c.stdout # <<>> => t = c.stdout
      BY <2>1
    <2> QED BY <1>1, <2>4, <2>5, <2>6, <2>7, <2>8
  <1>2. CASE ~(c.exit # 0 /\ ~Benign(c.argv, c.exit))
    <2>1. PICK t : t = IF c.exit # 0 /\ c.stdout = <<>> THEN Message ELSE c.stdout
      OBVIOUS
    <2>2. Text(c, c.exit # 0 /\ ~Benign(c.argv, c.exit)) = t
      BY <1>2, <2>1 DEF Text
    <2>3. controlTruncated(c, c.exit # 0 /\ ~Benign(c.argv, c.exit)) <=> c.stdoutTruncated
      BY <1>2 DEF controlTruncated
    <2>4. ~TextResult(c).isError /\ TextResult(c).text = boundContent(t)
      BY <1>2, <2>2, TextShape
    <2>5. TextResult(c).note <=> c.stdoutTruncated \/ Len(boundContent(t)) < Len(t)
      BY <2>2, <2>3, TextShape
    <2>6. t \in {c.stdout, c.stderr, Message} /\ (c.stdout # <<>> => t = c.stdout)
      BY <2>1
    <2> QED BY <2>4, <2>5, <2>6
  <1> QED BY <1>1, <1>2

\* A text is as it was or it is shorter.
LEMMA CutShortens ==
  ASSUME NEW s \in Seq(Bytes)
  PROVE  Len(boundContent(s)) < Len(s) <=> boundContent(s) # s
  <1>1. MaxContent \in Nat /\ Len(s) \in Nat
    BY ExecResultAssumption, LenProperties
  <1>2. CASE Len(s) <= MaxContent
    BY <1>1, <1>2, Bounded
  <1>3. CASE Len(s) > MaxContent
    <2>1. Len(boundContent(s)) < Len(s)
      <3>1. Len(boundContent(s)) \in Nat /\ Len(boundContent(s)) <= MaxContent
        BY Bounded, LenProperties
      <3> QED BY <1>1, <1>3, <3>1
    <2> QED BY <1>1, <2>1
  <1> QED BY <1>1, <1>2, <1>3

LEMMA MessageIsText == Message \in Seq(Bytes) /\ Message # <<>> /\ Len(Message) = 1 /\ Message[1] = "x"
  BY DEF Message, Bytes

-------------------------------------------------------------------------------
(* The result is the projection of the reply *)

ResultInv ==
    /\ pc # "done" => result = None
    /\ pc = "replied" => IsReply(call)
    /\ pc = "done" => \/ result.kind = "correlation"
                      \/ IsReply(call) /\ result = projectCallToolResult(call)

\* Every script step that prints leaves a reply of Control.
LEMMA EndsReplies ==
  ASSUME NEW exit \in Nat, NEW out \in {<<>>, Line}, NEW image \in BOOLEAN,
         NEW truncated \in BOOLEAN, Ends(exit, out, image, truncated)
  PROVE  IsReply(call)' /\ pc' = "replied" /\ result' = result
  <1>1. out \in Seq(Bytes) /\ <<>> \in Seq(Bytes)
    <2>1. Line \in Seq(Bytes)
      BY DEF Line, Bytes
    <2>2. <<>> \in Seq(Bytes)
      BY EmptySeq
    <2> QED BY <2>1, <2>2
  <1>2. /\ call'.exit = exit /\ call'.decodes = TRUE /\ call'.image = image
        /\ call'.stdout = out /\ call'.stderr = <<>>
        /\ call'.stdoutTruncated = truncated /\ call'.stderrTruncated = FALSE
    BY DEF Ends
  <1>3. IsReply(call)'
    <2>1. call'.argv = NotShell
      BY Zenon DEF Ends
    <2> QED BY <1>1, <1>2, <2>1 DEF IsReply
  <1> QED BY <1>3 DEF Ends

\* A script step either goes to another step or ends with a reply.
LEMMA ScriptStep ==
  ASSUME req.tool = "view" => req.picture.oneLine \in BOOLEAN,
         pc = "view" => req.tool = "view",
         CreateOpen \/ CreateCut \/ CreateWrite \/ ReplaceRead \/ ReplaceWrite
           \/ ReplaceCut \/ View \/ Killed
  PROVE  /\ result' = result
         /\ \/ pc' = "replied" /\ IsReply(call)'
            \/ pc' \in Scripts
  <1>1. ASSUME NEW why, Errors(why)
        PROVE  result' = result /\ pc' = "replied" /\ IsReply(call)'
    BY <1>1, EndsReplies DEF Errors
  <1>2. ASSUME Succeeds
        PROVE  result' = result /\ pc' = "replied" /\ IsReply(call)'
    BY <1>2, EndsReplies DEF Succeeds
  <1>3. ASSUME NEW label \in Scripts, Goes(label)
        PROVE  result' = result /\ pc' \in Scripts
    BY <1>3 DEF Goes
  <1>4. {"create.cut", "create.write", "replace.write", "replace.cut"} \subseteq Scripts
    BY DEF Scripts
  <1>5. CASE CreateOpen
    BY <1>1, <1>3, <1>4, <1>5 DEF CreateOpen
  <1>6. CASE CreateCut
    BY <1>1, <1>3, <1>4, <1>6 DEF CreateCut
  <1>7. CASE CreateWrite
    BY <1>1, <1>2, <1>7 DEF CreateWrite
  <1>8. CASE ReplaceRead
    BY <1>1, <1>3, <1>4, <1>8 DEF ReplaceRead
  <1>9. CASE ReplaceWrite
    BY <1>1, <1>3, <1>4, <1>9 DEF ReplaceWrite
  <1>10. CASE ReplaceCut
    BY <1>1, <1>2, <1>10 DEF ReplaceCut
  <1>11. CASE View
    <2>1. ASSUME Shown
          PROVE  result' = result /\ pc' = "replied" /\ IsReply(call)'
      BY <2>1, EndsReplies DEF Shown
    <2>2. ASSUME NEW cut \in BOOLEAN, Ends(0, Line, req.picture.oneLine, cut),
                 req.picture.oneLine \in BOOLEAN
          PROVE  result' = result /\ pc' = "replied" /\ IsReply(call)'
      BY <2>2, EndsReplies
    <2> QED BY <1>1, <1>2, <1>11, <2>1, <2>2 DEF View
  <1>12. CASE Killed
    BY <1>12, EndsReplies DEF Killed
  <1> QED BY <1>5, <1>6, <1>7, <1>8, <1>9, <1>10, <1>11, <1>12

\* Which call a step belongs to: a shell line never runs a script of the file tools.
ReqInv ==
    /\ pc \in Scripts \cup {"start", "replied", "done"}
    /\ \/ req.tool = "bash_tool" /\ pc \notin Scripts /\ (pc = "start" => ~req.given)
       \/ req \in FileCalls
    /\ pc \in FileToolScripts => pc = req.tool
    /\ pc \in {"create.cut", "create.write"} => req.tool = "create_file"
    /\ pc \in {"replace.write", "replace.cut"} => req.tool = "str_replace"

LEMMA ReqInit == Init => ReqInv /\ ResultInv
  <1> SUFFICES ASSUME Init
               PROVE  ReqInv /\ ResultInv
    OBVIOUS
  <1>1. "replied" \notin Scripts /\ "start" \notin Scripts
    BY DEF Scripts, FileToolScripts
  <1>2. CASE req = Shell0 /\ call \in Cases /\ pc = "replied"
    BY <1>1, <1>2, ToolCallAssumption DEF Init, ReqInv, ResultInv, Shell0, FileToolScripts
  <1>3. CASE req = [Shell0 EXCEPT !.given = FALSE] /\ pc = "start"
    BY <1>1, <1>3 DEF Init, ReqInv, ResultInv, Shell0, FileToolScripts
  <1>4. CASE req \in FileCalls /\ pc = "start"
    BY <1>1, <1>4 DEF Init, ReqInv, ResultInv, FileToolScripts
  <1> QED BY <1>2, <1>3, <1>4 DEF Init

\* Where each step of a script leads.
LEMMA ScriptGoes ==
  ASSUME CreateOpen \/ CreateCut \/ CreateWrite \/ ReplaceRead \/ ReplaceWrite
           \/ ReplaceCut \/ View \/ Killed
  PROVE  /\ pc \in Scripts /\ req' = req /\ before' = before
         /\ \/ pc' = "replied"
            \/ pc = "create_file" /\ pc' = "create.cut"
            \/ pc = "create.cut" /\ pc' = "create.write"
            \/ pc = "str_replace" /\ pc' = "replace.write"
            \/ pc = "replace.write" /\ pc' = "replace.cut"
  <1>1. ASSUME NEW exit, NEW out, NEW image, NEW truncated, Ends(exit, out, image, truncated)
        PROVE  pc' = "replied" /\ req' = req /\ before' = before
    BY <1>1 DEF Ends
  <1>2. ASSUME NEW why, Errors(why)
        PROVE  pc' = "replied" /\ req' = req /\ before' = before
    BY <1>2 DEF Errors, Ends
  <1>3. ASSUME Succeeds
        PROVE  pc' = "replied" /\ req' = req /\ before' = before
    BY <1>3 DEF Succeeds, Ends
  <1>4. ASSUME NEW label, Goes(label)
        PROVE  pc' = label /\ req' = req /\ before' = before
    BY <1>4 DEF Goes
  <1>5. CASE CreateOpen
    BY <1>2, <1>4, <1>5 DEF CreateOpen, Scripts, FileToolScripts
  <1>6. CASE CreateCut
    BY <1>2, <1>4, <1>6 DEF CreateCut, Scripts
  <1>7. CASE CreateWrite
    BY <1>2, <1>3, <1>7 DEF CreateWrite, Scripts
  <1>8. CASE ReplaceRead
    BY <1>2, <1>4, <1>8 DEF ReplaceRead, Scripts, FileToolScripts
  <1>9. CASE ReplaceWrite
    BY <1>2, <1>4, <1>9 DEF ReplaceWrite, Scripts
  <1>10. CASE ReplaceCut
    BY <1>2, <1>3, <1>10 DEF ReplaceCut, Scripts
  <1>11. CASE View
    BY <1>1, <1>2, <1>3, <1>11 DEF View, Shown, Scripts, FileToolScripts
  <1>12. CASE Killed
    BY <1>1, <1>12 DEF Killed
  <1> QED BY <1>5, <1>6, <1>7, <1>8, <1>9, <1>10, <1>11, <1>12

LEMMA ReqStep ==
  ASSUME ReqInv, ResultInv, [Next]_vars
  PROVE  ReqInv' /\ ResultInv'
  <1>0. /\ "replied" \notin Scripts /\ "start" \notin Scripts /\ "done" \notin Scripts
        /\ Scripts = {"create_file", "str_replace", "view", "create.cut", "create.write",
                      "replace.write", "replace.cut"}
    BY DEF Scripts, FileToolScripts
  <1>1. CASE UNCHANGED vars
    BY <1>1 DEF vars, ReqInv, ResultInv, IsReply
  <1>2. CASE CreateOnly
    <2>1. pc' = "done" /\ result'.kind = "correlation" /\ req' = req /\ pc = "start"
      BY <1>2 DEF CreateOnly
    <2> QED BY <1>0, <2>1 DEF ReqInv, ResultInv, FileToolScripts
  <1>3. CASE Exec
    <2>1. pc = "start" /\ Projects(req) /\ pc' = req.tool /\ req' = req /\ result' = result
      BY <1>3 DEF Exec
    <2>2. req \in FileCalls /\ req.tool \in FileToolScripts
      BY <2>1, ToolCallAssumption DEF ReqInv, Projects
    <2> QED BY <1>0, <2>1, <2>2 DEF ReqInv, ResultInv, FileToolScripts
  <1>4. CASE Relay
    <2>1. /\ pc' = "done" /\ result' = projectCallToolResult(call) /\ req' = req
          /\ pc = "replied" /\ call' = call
      BY <1>4 DEF Relay
    <2>2. IsReply(call)' /\ result' = projectCallToolResult(call)'
      BY <2>1 DEF ResultInv
    <2>3. ResultInv'
      BY <2>1, <2>2 DEF ResultInv
    <2>4. ReqInv'
      BY <1>0, <2>1 DEF ReqInv, FileToolScripts
    <2> QED BY <2>3, <2>4
  <1>5. CASE CreateOpen \/ CreateCut \/ CreateWrite \/ ReplaceRead \/ ReplaceWrite
               \/ ReplaceCut \/ View \/ Killed
    <2>1. req.tool = "view" => req.picture.oneLine \in BOOLEAN
      BY ToolCallAssumption DEF ReqInv
    <2>2. pc = "view" => req.tool = "view"
      BY DEF ReqInv, FileToolScripts
    <2>3. result' = result /\ ((pc' = "replied" /\ IsReply(call)') \/ pc' \in Scripts)
      BY <1>5, <2>1, <2>2, ScriptStep
    <2>4. /\ pc \in Scripts /\ req' = req
          /\ \/ pc' = "replied"
             \/ pc = "create_file" /\ pc' = "create.cut"
             \/ pc = "create.cut" /\ pc' = "create.write"
             \/ pc = "str_replace" /\ pc' = "replace.write"
             \/ pc = "replace.write" /\ pc' = "replace.cut"
      BY <1>5, ScriptGoes
    <2>5. ResultInv'
      BY <1>0, <2>3, <2>4 DEF ResultInv
    <2>6. ReqInv'
      BY <1>0, <2>4 DEF ReqInv, FileToolScripts
    <2> QED BY <2>5, <2>6
  <1> QED BY <1>1, <1>2, <1>3, <1>4, <1>5 DEF Next

\* Every result a caller reads is the projection of a reply of Control, or the answer
\* to a call that had nothing to run.
THEOREM ResultInvariant == Spec => [](ReqInv /\ ResultInv)
  BY ReqInit, ReqStep, PTL DEF Spec

\* What a result that is there says of the reply it was made from.
LEMMA ResultSource ==
  ASSUME ReqInv, ResultInv, result # None, result.kind \in {"text", "image"}
  PROVE  /\ IsReply(call)
         /\ result.kind = "image" => call.exit = 0 /\ ~call.stdoutTruncated
         /\ result.kind = "text" => result = TextResult(call)
  <1>1. IsReply(call) /\ result = projectCallToolResult(call)
    BY DEF ReqInv, ResultInv
  <1> QED BY <1>1, Shapes

LEMMA StreamTypes ==
  ASSUME NEW c, IsReply(c), NEW t \in {c.stdout, c.stderr, Message}
  PROVE  t \in Seq(Bytes)
  BY MessageIsText DEF IsReply

\* A failed command is never relayed as an error that says nothing: whatever the streams,
\* the text of an error is not empty, or the note says that it was cut.
THEOREM NeverSilentHolds == Spec => []NeverSilent
  <1>1. ReqInv /\ ResultInv => NeverSilent
    <2> SUFFICES ASSUME ReqInv, ResultInv, result # None, result.kind = "text", result.isError
                 PROVE  result.text # <<>> \/ result.note
      BY DEF NeverSilent
    <2>1. IsReply(call) /\ result = TextResult(call)
      BY ResultSource
    <2>2. PICK t \in {call.stdout, call.stderr, Message} :
             /\ result.text = boundContent(t) /\ t # <<>>
             /\ Len(boundContent(t)) < Len(t) => result.note
      BY <2>1, TextSource
    <2>3. t \in Seq(Bytes)
      BY <2>1, StreamTypes
    <2> QED BY <2>2, <2>3, CutShortens
  <1> QED BY <1>1, ResultInvariant, PTL

\* A caller who is not told of a cut has read the whole stream: the note is there exactly
\* when Control cut the stream that is relayed or the gateway did.
THEOREM TruncationAnnouncedHolds == Spec => []TruncationAnnounced
  <1>1. ReqInv /\ ResultInv => TruncationAnnounced
    <2> SUFFICES ASSUME ReqInv, ResultInv
                 PROVE  TruncationAnnounced
      OBVIOUS
    <2>1. ASSUME result # None, result.kind = "image"
          PROVE  call.exit = 0 /\ ~call.stdoutTruncated
      BY <2>1, ResultSource
    <2>2. ASSUME result # None, result.kind = "text"
          PROVE  /\ result.isError => call.exit # 0
                 /\ result.isError /\ call.stderr # <<>> =>
                      (result.note <=> call.stderrTruncated \/ result.text # call.stderr)
                 /\ ~(result.isError /\ call.stderr # <<>>) /\ call.stdout # <<>> =>
                      (result.note <=> call.stdoutTruncated \/ result.text # call.stdout)
      <3>1. IsReply(call) /\ result = TextResult(call)
        BY <2>2, ResultSource
      <3>2. PICK t \in {call.stdout, call.stderr, Message} :
               /\ result.text = boundContent(t)
               /\ result.isError => call.exit # 0
               /\ result.isError /\ call.stderr # <<>> =>
                    /\ t = call.stderr
                    /\ result.note <=> call.stderrTruncated \/ Len(boundContent(t)) < Len(t)
               /\ ~(result.isError /\ call.stderr # <<>>) =>
                    /\ call.stdout # <<>> => t = call.stdout
                    /\ result.note <=> call.stdoutTruncated \/ Len(boundContent(t)) < Len(t)
        BY <3>1, TextSource
      <3>3. Len(boundContent(t)) < Len(t) <=> boundContent(t) # t
        BY <3>1, StreamTypes, CutShortens
      <3> QED BY <3>2, <3>3
    <2> QED BY <2>1, <2>2 DEF TruncationAnnounced
  <1> QED BY <1>1, ResultInvariant, PTL

\* The cut of a stream of whole runes ends with one, and costs at most the one it splits.
LEMMA CutAtRune ==
  ASSUME NEW s \in Seq(Bytes), Runes(s)
  PROVE  /\ boundContent(s) # <<>> => Last(boundContent(s)) # "lead"
         /\ Len(boundContent(s)) < MaxContent - 1 => boundContent(s) = s
  <1>1. MaxContent \in Nat \ {0} /\ Len(s) \in Nat
    BY ExecResultAssumption, LenProperties
  <1>2. CASE Len(s) <= MaxContent
    <2>1. boundContent(s) = s
      BY <1>2, Bounded
    <2>2. ASSUME s # <<>>
          PROVE  s[Len(s)] # "lead"
      <3>1. Len(s) \in 1..Len(s)
        BY <1>1, <2>2, EmptySeq
      <3>2. s[Len(s)] = "lead" => Len(s) < Len(s)
        BY <3>1 DEF Runes
      <3> QED BY <1>1, <3>2
    <2> QED BY <2>1, <2>2 DEF Last
  <1>3. CASE Len(s) > MaxContent
    <2>1. PICK m \in 0..MaxContent :
             /\ boundContent(s) = SubSeq(s, 1, m) /\ Len(boundContent(s)) = m
             /\ m = 0 \/ s[m + 1] # "cont"
             /\ \A c \in 0..MaxContent : c > m => s[c + 1] = "cont"
      BY <1>3, Bounded
    <2>2. boundContent(s) \in Seq(Bytes)
      BY Bounded
    <2>3. ASSUME boundContent(s) # <<>>
          PROVE  Last(boundContent(s)) # "lead"
      <3>1. m \in 1..Len(s) /\ m # 0 /\ m + 1 \in Int
        BY <1>1, <1>3, <2>1, <2>2, <2>3, EmptySeq
      <3>2. Last(boundContent(s)) = s[m]
        <4>1. SubSeq(s, 1, m)[m] = s[m]
          BY <1>1, <3>1
        <4> QED BY <2>1, <4>1 DEF Last
      <3>3. s[m] = "lead" => s[m + 1] = "cont"
        BY <3>1 DEF Runes
      <3> QED BY <2>1, <3>1, <3>2, <3>3
    <2>4. m >= MaxContent - 1
      <3> SUFFICES ASSUME m < MaxContent - 1
                   PROVE  FALSE
        BY <1>1
      <3>1. MaxContent \in 0..MaxContent /\ MaxContent - 1 \in 0..MaxContent
        BY <1>1
      <3>2. s[MaxContent + 1] = "cont" /\ s[(MaxContent - 1) + 1] = "cont"
        BY <1>1, <2>1, <3>1
      <3>3. MaxContent + 1 \in 1..Len(s)
        BY <1>1, <1>3
      <3>4. s[(MaxContent + 1) - 1] = "lead"
        BY <3>2, <3>3 DEF Runes
      <3>5. (MaxContent + 1) - 1 = (MaxContent - 1) + 1
        BY <1>1
      <3> QED BY <3>2, <3>4, <3>5
    <2> QED BY <1>1, <2>1, <2>3, <2>4
  <1> QED BY <1>1, <1>2, <1>3

\* A relayed text stays within the ceiling, and the cut never leaves half a rune or takes
\* more than it must.
THEOREM WholeRunesHolds == Spec => []WholeRunes
  <1>1. ReqInv /\ ResultInv => WholeRunes
    <2> SUFFICES ASSUME ReqInv, ResultInv, result # None, result.kind = "text"
                 PROVE  /\ Len(result.text) <= MaxContent
                        /\ Runes(call.stdout) /\ Runes(call.stderr) =>
                             /\ result.text # <<>> => Last(result.text) # "lead"
                             /\ Len(result.text) < MaxContent - 1 =>
                                  result.text \in {call.stdout, call.stderr, Message}
      BY DEF WholeRunes
    <2>1. IsReply(call) /\ result = TextResult(call)
      BY ResultSource
    <2>2. PICK t \in {call.stdout, call.stderr, Message} : result.text = boundContent(t)
      BY <2>1, TextSource
    <2>3. t \in Seq(Bytes)
      BY <2>1, StreamTypes
    <2>4. Len(result.text) <= MaxContent
      BY <2>2, <2>3, Bounded
    <2>5. ASSUME Runes(call.stdout), Runes(call.stderr)
          PROVE  /\ result.text # <<>> => Last(result.text) # "lead"
                 /\ Len(result.text) < MaxContent - 1 => result.text = t
      <3>1. Runes(Message)
        BY MessageIsText DEF Runes
      <3>2. Runes(t)
        BY <2>5, <3>1
      <3> QED BY <2>2, <2>3, <3>2, CutAtRune
    <2> QED BY <2>2, <2>4, <2>5
  <1> QED BY <1>1, ResultInvariant, PTL

-------------------------------------------------------------------------------
(* Pictures *)

\* Growing by base64, a picture within the budget and the longest path line stay under
\* the ceiling of a stream.
LEMMA BudgetFits ==
  ASSUME NEW k \in Nat, k <= RAW_JPEG_BUDGET, NEW n \in SentinelLines
  PROVE  ~(n + base64(k) > controlReplyStreamCeiling)
  <1>1. (k + 2) \div 3 <= 15000 /\ (k + 2) \div 3 \in Nat
    BY DEF RAW_JPEG_BUDGET
  <1>2. n \in Nat /\ n <= 4121
    BY DEF SentinelLines
  <1> QED BY <1>1, <1>2 DEF base64, controlReplyStreamCeiling

LEMMA CutIsTooLarge ==
  ASSUME NEW sizes \in Seq(Nat), NEW n \in SentinelLines,
         n + base64(render_image(sizes)) > controlReplyStreamCeiling
  PROVE  \A i \in DOMAIN sizes : sizes[i] > RAW_JPEG_BUDGET
  <1> DEFINE fitting == {i \in DOMAIN sizes : sizes[i] <= RAW_JPEG_BUDGET}
  <1>0. \A i \in DOMAIN sizes : i \in Nat /\ sizes[i] \in Nat
    BY LenProperties
  <1>1. CASE fitting = {}
    <2>1. \A i \in DOMAIN sizes : ~(sizes[i] <= RAW_JPEG_BUDGET)
      BY <1>1
    <2> QED BY <1>0, <2>1 DEF RAW_JPEG_BUDGET
  <1>2. CASE fitting # {}
    <2>1. fitting \in SUBSET Nat
      BY <1>0
    <2>2. Min(fitting) \in fitting
      <3> HIDE DEF fitting
      <3> QED BY <1>2, <2>1, MinIsLeast
    <2>3. sizes[Min(fitting)] \in Nat /\ sizes[Min(fitting)] <= RAW_JPEG_BUDGET
      BY <1>0, <2>2
    <2>4. render_image(sizes) = sizes[Min(fitting)]
      BY <1>2, Zenon DEF render_image
    <2> HIDE DEF fitting
    <2> QED BY <2>3, <2>4, BudgetFits
  <1> QED BY <1>1, <1>2

\* What a view that met no fault replied.
ViewReply ==
    /\ call.image => req.ext = "image" /\ isfile
    /\ req.valid /\ isfile /\ req.ext = "image" /\ req.picture.pil /\ req.picture.opens =>
         /\ call.exit = 0 /\ call.decodes
         /\ req.picture.oneLine => call.image
         /\ call.stdoutTruncated =>
              \A i \in DOMAIN req.picture.sizes : req.picture.sizes[i] > RAW_JPEG_BUDGET

ViewInv ==
    req.tool = "view" =>
        /\ file = before
        /\ pc = "replied" /\ fault = "none" => ViewReply
        /\ pc = "done" /\ fault = "none" =>
             \/ result.kind = "correlation" /\ ~req.given
             \/ IsReply(call) /\ result = projectCallToolResult(call) /\ ViewReply

LEMMA ViewReplies ==
  ASSUME ReqInv, ViewInv, View
  PROVE  ViewInv'
  <1>1. /\ pc = "view" /\ file' = file /\ req.tool = "view" /\ pc' = "replied"
        /\ req' = req /\ before' = before /\ file = before
    BY ScriptGoes DEF View, ReqInv, ViewInv, FileToolScripts
  <1>2. /\ req.picture.sizes \in Seq(Nat)
        /\ req.picture.oneLine \in BOOLEAN
    BY <1>1, ToolCallAssumption DEF ReqInv
  <1> SUFFICES ASSUME fault' = "none"
               PROVE  ViewReply'
    BY <1>1 DEF ViewInv
  <1>3. ASSUME NEW exit, NEW out, NEW truncated, Ends(exit, out, FALSE, truncated),
               ~(req.valid /\ isfile /\ req.ext = "image" /\ req.picture.pil /\ req.picture.opens)
        PROVE  ViewReply'
    <2>1. call'.image = FALSE
      BY <1>3 DEF Ends
    <2> QED BY <1>1, <1>3, <2>1 DEF ViewReply, isfile
  <1>4. ASSUME NEW why, Errors(why),
               ~(req.valid /\ isfile /\ req.ext = "image" /\ req.picture.pil /\ req.picture.opens)
        PROVE  ViewReply'
    BY <1>3, <1>4 DEF Errors
  <1>5. CASE Errors("none") /\ (~req.valid \/ file.kind = "missing")
    BY <1>4, <1>5 DEF isfile
  <1>6. CASE Errors("io")
    BY <1>6 DEF Errors
  <1>7. CASE Errors("none") /\ req.ext = "binary"
    BY <1>4, <1>7
  <1>8. CASE ~req.picture.pil /\ Succeeds
    BY <1>3, <1>8 DEF Succeeds
  <1>9. CASE ~req.picture.opens /\ Errors("none")
    BY <1>4, <1>9
  <1>10. ASSUME req.ext = "image", isfile, NEW n \in SentinelLines, NEW cut \in BOOLEAN,
                cut <=> n + base64(render_image(req.picture.sizes)) > controlReplyStreamCeiling,
                Ends(0, Line, req.picture.oneLine, cut)
         PROVE  ViewReply'
    <2>1. /\ call'.image = req.picture.oneLine /\ call'.exit = 0 /\ call'.decodes = TRUE
          /\ call'.stdoutTruncated = cut
      BY <1>10 DEF Ends
    <2>2. cut => \A i \in DOMAIN req.picture.sizes : req.picture.sizes[i] > RAW_JPEG_BUDGET
      BY <1>2, <1>10, CutIsTooLarge
    <2> QED BY <1>1, <1>10, <2>1, <2>2 DEF ViewReply, isfile
  <1>11. CASE (file.kind = "dir" \/ req.ext = "none") /\ Shown
    <2>1. PICK out, truncated : Ends(0, out, FALSE, truncated)
      BY <1>11 DEF Shown
    <2>2. ~(isfile /\ req.ext = "image")
      BY <1>11 DEF isfile
    <2> QED BY <1>3, <2>1, <2>2
  <1> QED BY <1>5, <1>6, <1>7, <1>8, <1>9, <1>10, <1>11 DEF View

LEMMA ViewStep ==
  ASSUME ReqInv, ResultInv, ViewInv, [Next]_vars
  PROVE  ViewInv'
  <1>1. CASE UNCHANGED vars
    BY <1>1 DEF vars, ViewInv, ViewReply, IsReply, isfile
  <1>2. CASE CreateOnly
    <2>1. /\ pc' = "done" /\ result'.kind = "correlation" /\ req' = req /\ pc = "start"
          /\ ~Projects(req) /\ file' = file /\ before' = before /\ fault' = fault
      BY <1>2 DEF CreateOnly
    <2>2. req.tool = "view" => ~req.given
      BY <2>1 DEF Projects, FileToolScripts
    <2> QED BY <2>1, <2>2 DEF ViewInv
  <1>3. CASE Exec
    <2>1. /\ pc' = req.tool /\ req' = req /\ file' = file /\ before' = before
      BY <1>3 DEF Exec
    <2> QED BY <2>1 DEF ViewInv
  <1>4. CASE Relay
    <2>1. /\ pc' = "done" /\ result' = projectCallToolResult(call) /\ req' = req
          /\ pc = "replied" /\ call' = call /\ file' = file /\ before' = before /\ fault' = fault
      BY <1>4 DEF Relay
    <2>2. IsReply(call)' /\ result' = projectCallToolResult(call)'
      BY <2>1 DEF ResultInv
    <2>3. ViewReply => ViewReply'
      BY <2>1 DEF ViewReply, isfile
    <2> QED BY <2>1, <2>2, <2>3 DEF ViewInv
  <1>5. CASE View
    BY <1>5, ViewReplies
  <1>6. CASE Killed
    <2>1. /\ req' = req /\ before' = before /\ pc' = "replied" /\ fault' = "killed"
          /\ req.tool = "view" => file' = file
      BY <1>6, ScriptGoes DEF Killed, Ends, ReqInv
    <2> QED BY <2>1 DEF ViewInv
  <1>7. CASE CreateOpen \/ CreateCut \/ CreateWrite \/ ReplaceRead \/ ReplaceWrite \/ ReplaceCut
    <2>1. req.tool # "view"
      BY <1>7 DEF ReqInv, FileToolScripts, CreateOpen, CreateCut, CreateWrite, ReplaceRead,
                  ReplaceWrite, ReplaceCut
    <2>2. req' = req
      BY <1>7, ScriptGoes
    <2> QED BY <2>1, <2>2 DEF ViewInv
  <1> QED BY <1>1, <1>2, <1>3, <1>4, <1>5, <1>6, <1>7 DEF Next

\* A picture that some encoding brings within the budget of render_image arrives as a
\* picture, through base64 and the stream ceiling; one that none does arrives or is said
\* to be cut; and a view writes nothing.
THEOREM PictureShownHolds == Spec => []PictureShown
  <1>1. Init => ViewInv
    BY DEF Init, ViewInv, Shell0
  <1>2. ReqInv /\ ResultInv /\ ViewInv /\ [Next]_vars => ViewInv'
    BY ViewStep
  <1>3. ReqInv /\ ViewInv => PictureShown
    <2> SUFFICES ASSUME ReqInv, ViewInv, pc = "done", req.tool = "view", fault = "none"
                 PROVE  PictureShown
      BY DEF PictureShown
    <2>1. file = before
      BY DEF ViewInv
    <2>2. CASE result.kind = "correlation" /\ ~req.given
      BY <2>1, <2>2 DEF PictureShown
    <2>3. CASE IsReply(call) /\ result = projectCallToolResult(call) /\ ViewReply
      <3>1. result.kind = "image" => req.ext = "image" /\ isfile
        BY <2>3, Shapes DEF ViewReply
      <3>2. ASSUME req.valid, isfile, req.ext = "image", req.picture.pil, req.picture.opens,
                   req.picture.oneLine, result.kind # "image"
            PROVE  /\ result.note
                   /\ \A i \in DOMAIN req.picture.sizes : req.picture.sizes[i] > RAW_JPEG_BUDGET
        <4>1. call.exit = 0 /\ call.decodes /\ call.image
          BY <2>3, <3>2 DEF ViewReply
        <4>2. call.stdoutTruncated
          BY <2>3, <3>2, <4>1, Shapes
        <4>3. result = TextResult(call)
          BY <2>3, <4>1, <4>2, Shapes
        <4>4. result.note
          BY <2>3, <4>1, <4>2, <4>3, TextSource
        <4> QED BY <2>3, <3>2, <4>2, <4>4 DEF ViewReply
      <3> QED BY <2>1, <3>1, <3>2 DEF PictureShown
    <2> QED BY <2>2, <2>3 DEF ViewInv
  <1> QED BY <1>1, <1>2, <1>3, ResultInvariant, PTL DEF Spec

-------------------------------------------------------------------------------
(* Walks: a function that takes each value from the one before it exists for every    *)
(* step, by the least length that has none; so the recursive functions of ToolCall    *)
(* and ExecResult are what they are defined to be.                                     *)

\* What holds at the start and is kept by every step holds everywhere.
LEMMA Climb ==
  ASSUME NEW n \in Nat, NEW A, 0 \in A, \A i \in 1..n : i - 1 \in A => i \in A
  PROVE  \A i \in 0..n : i \in A
  <1> DEFINE T == {i \in 0..n : i \notin A}
  <1> SUFFICES ASSUME T # {}
               PROVE  FALSE
    OBVIOUS
  <1>1. T \in SUBSET Nat
    OBVIOUS
  <1>2. PICK x \in T : \A y \in T : x <= y
    <2> HIDE DEF T
    <2> QED BY <1>1, LeastExists
  <1>3. x \in 1..n /\ x - 1 \in 0..n
    OBVIOUS
  <1>4. x - 1 \notin T
    BY <1>2, <1>3
  <1> QED BY <1>3, <1>4

\* The function that starts with c and takes each value from the one before it.
Iterates(f, n, S, c, G) == f \in [0..n -> S] /\ f[0] = c /\ \A i \in 1..n : f[i] = G[i][f[i - 1]]

LEMMA WalkExists ==
  ASSUME NEW n \in Nat, NEW S, NEW c \in S, NEW G \in [1..n -> [S -> S]]
  PROVE  \E f : Iterates(f, n, S, c, G)
  <1> DEFINE good(f, m) == f \in [0..m -> S] /\ f[0] = c /\ \A i \in 1..m : f[i] = G[i][f[i - 1]]
             A == {m \in 0..n : \E f : good(f, m)}
  <1>1. 0 \in A
    <2>1. good([i \in 0..0 |-> c], 0)
      OBVIOUS
    <2> HIDE DEF good
    <2> QED BY <2>1
  <1>2. ASSUME NEW m \in 1..n, m - 1 \in A
        PROVE  m \in A
    <2>1. PICK f : good(f, m - 1)
      BY <1>2
    <2> DEFINE g == [i \in 0..m |-> IF i = m THEN G[m][f[m - 1]] ELSE f[i]]
    <2>2. m - 1 \in 0..(m - 1) /\ f[m - 1] \in S /\ G[m][f[m - 1]] \in S
      BY <2>1
    <2>3. g \in [0..m -> S] /\ g[0] = c
      BY <2>1, <2>2
    <2>4. ASSUME NEW i \in 1..m
          PROVE  g[i] = G[i][g[i - 1]]
      <3>1. g[i - 1] = f[i - 1]
        OBVIOUS
      <3>2. CASE i = m
        BY <3>1, <3>2
      <3>3. CASE i # m
        BY <2>1, <3>1, <3>3
      <3> QED BY <3>2, <3>3
    <2>5. good(g, m)
      BY <2>3, <2>4
    <2> HIDE DEF good, g
    <2> QED BY <2>5
  <1>3. n \in A
    <2> HIDE DEF A
    <2>1. \A i \in 0..n : i \in A
      BY <1>1, <1>2, Climb
    <2> QED BY <2>1
  <1>4. PICK f : good(f, n)
    BY <1>3
  <1>5. Iterates(f, n, S, c, G)
    BY <1>4 DEF Iterates
  <1> QED BY <1>5

-------------------------------------------------------------------------------
(* Texts: what the read, the count and the edit of str_replace compute *)

\* The units of a text that was read.
Char == STRING \cup {"lf"}

LEMMA StringsAreTexts == Seq(STRING) \subseteq Seq(Char)
  <1> SUFFICES ASSUME NEW t \in Seq(STRING) PROVE t \in Seq(Char)
    OBVIOUS
  <1>1. Len(t) \in Nat /\ \A i \in 1..Len(t) : t[i] \in Char
    BY LenProperties, ElementOfSeq DEF Char
  <1>2. t = [i \in 1..Len(t) |-> t[i]]
    OBVIOUS
  <1> QED BY <1>1, <1>2, IsASeq

\* One unit of a read in text mode: s was read before it, and drop is a "lf" after "cr".
TextStep(s, u, drop) ==
    IF u = "cr" THEN Append(s, "lf")
    ELSE IF drop THEN s ELSE Append(s, u)

LEMMA TextStepType ==
  ASSUME NEW s \in Seq(Char), NEW u \in Char, NEW drop
  PROVE  TextStep(s, u, drop) \in Seq(Char)
  <1>1. "lf" \in Char
    BY DEF Char
  <1>2. Append(s, "lf") \in Seq(Char) /\ Append(s, u) \in Seq(Char)
    BY <1>1, AppendProperties
  <1> QED BY <1>2 DEF TextStep

\* What is read of a text is a text.
LEMMA ReadIsText ==
  ASSUME NEW t \in Seq(STRING)
  PROVE  Universal(t) \in Seq(Char)
  <1> DEFINE n == Len(t)
             S == Seq(Char)
             drop(i) == t[i] = "lf" /\ i > 1 /\ t[i - 1] = "cr"
             G == [i \in 1..n |-> [s \in S |-> TextStep(s, t[i], drop(i))]]
             step(f) == [i \in 0..n |->
                           IF i = 0 THEN <<>>
                           ELSE IF t[i] = "cr" THEN Append(f[i - 1], "lf")
                           ELSE IF t[i] = "lf" /\ i > 1 /\ t[i - 1] = "cr" THEN f[i - 1]
                           ELSE Append(f[i - 1], t[i])]
             read == CHOOSE f : f = step(f)
  <1>1. Universal(t) = read[n]
    BY Zenon DEF Universal
  <1>2. n \in Nat /\ \A i \in 1..n : t[i] \in Char
    BY LenProperties, ElementOfSeq DEF Char
  <1>3. ASSUME NEW f, NEW i \in 0..n
        PROVE  step(f)[i] = IF i = 0 THEN <<>> ELSE TextStep(f[i - 1], t[i], drop(i))
    BY <1>2 DEF TextStep
  <1>4. G \in [1..n -> [S -> S]]
    <2> HIDE DEF drop
    <2> QED BY <1>2, TextStepType
  <1>5. <<>> \in S
    BY EmptySeq
  <1>6. PICK g \in [0..n -> S] : g[0] = <<>> /\ \A i \in 1..n : g[i] = TextStep(g[i - 1], t[i], drop(i))
    <2>2. PICK g \in [0..n -> S] : g[0] = <<>> /\ \A i \in 1..n : g[i] = G[i][g[i - 1]]
      <3>1. n \in Nat
        BY <1>2
      <3> HIDE DEF G, n, S
      <3>2. PICK g : Iterates(g, n, S, <<>>, G)
        BY <1>4, <1>5, <3>1, WalkExists
      <3> QED BY <3>2 DEF Iterates
    <2>3. ASSUME NEW i \in 1..n
          PROVE  G[i][g[i - 1]] = TextStep(g[i - 1], t[i], drop(i))
      <3>1. g[i - 1] \in S
        BY <1>2
      <3> HIDE DEF S, drop
      <3> QED BY <3>1
    <2> QED BY <2>2, <2>3
  <1>7. g = step(g)
    <2>1. ASSUME NEW i \in 0..n
          PROVE  g[i] = step(g)[i]
      <3>1. step(g)[i] = IF i = 0 THEN <<>> ELSE TextStep(g[i - 1], t[i], drop(i))
        BY <1>3
      <3>2. i # 0 => i \in 1..n
        BY <1>2
      <3> HIDE DEF step, n, drop
      <3> QED BY <1>6, <3>1, <3>2
    <2> DEFINE h == step(g)
    <2>2. h = [i \in 0..n |-> h[i]]
      OBVIOUS
    <2>3. \A i \in 0..n : g[i] = h[i]
      BY <2>1
    <2> HIDE DEF h, n, S
    <2>4. g = h
      BY <2>2, <2>3
    <2> QED BY <2>4 DEF h
  <1>8. read = step(read)
    <2> HIDE DEF step
    <2> QED BY <1>7
  <1> HIDE DEF read
  <1>9. \A i \in 0..n : read[i] = IF i = 0 THEN <<>> ELSE TextStep(read[i - 1], t[i], drop(i))
    <2> TAKE i \in 0..n
    <2>1. step(read)[i] = IF i = 0 THEN <<>> ELSE TextStep(read[i - 1], t[i], drop(i))
      BY <1>3
    <2>2. step(read)[i] = read[i]
      <3> HIDE DEF step
      <3> QED BY <1>8
    <2> QED BY <2>1, <2>2
  <1> HIDE DEF step, drop
  <1>10. \A i \in 0..n : read[i] \in S
    <2> DEFINE A == {i \in 0..n : read[i] \in S}
    <2>1. 0 \in A
      <3>1. 0 \in 0..n
        BY <1>2
      <3> HIDE DEF S, n
      <3> QED BY <1>5, <1>9, <3>1
    <2>2. ASSUME NEW i \in 1..n, i - 1 \in A
          PROVE  i \in A
      <3>1. i \in 0..n /\ i # 0 /\ t[i] \in Char
        BY <1>2
      <3> HIDE DEF n
      <3>2. read[i - 1] \in S /\ read[i] = TextStep(read[i - 1], t[i], drop(i))
        BY <1>9, <2>2, <3>1
      <3>3. read[i] \in S
        BY <3>1, <3>2, TextStepType
      <3> QED BY <3>1, <3>3
    <2>3. \A i \in 0..n : i \in A
      <3> HIDE DEF A, n
      <3> QED BY <1>2, <2>1, <2>2, Climb
    <2> QED BY <2>3
  <1>11. n \in 0..n
    BY <1>2
  <1> HIDE DEF n
  <1> QED BY <1>1, <1>10, <1>11

\* str.count sees two occurrences that do not overlap.
LEMMA CountsApart ==
  ASSUME NEW t \in Seq(Char), NEW old \in Seq(Char), old # <<>>,
         NEW i \in Matches(t, old), NEW j \in Matches(t, old),
         \A m \in Matches(t, old) : i <= m, j >= i + Len(old)
  PROVE  count(t, old) > 1
  <1> DEFINE n == Len(t)
             k == Len(old)
             N == Len(t) + Len(old) + 1
             M == Matches(t, old)
             step(f, a) == [p \in a..N |-> IF p > n THEN 0
                                           ELSE IF p \in M THEN 1 + f[p + k] ELSE f[p + 1]]
             from == CHOOSE f : f = step(f, 1)
  <1>1. count(t, old) = from[1]
    BY Zenon DEF count
  <1>2. n \in Nat /\ k \in Nat /\ k > 0 /\ N = n + k + 1 /\ N \in Nat
    BY LenProperties, EmptySeq
  <1>3. \A p \in M : p \in Nat /\ p >= 1 /\ p + k <= n + 1
    BY <1>2 DEF Matches
  <1> HIDE DEF n, k, N, M
  <1>4. \E f : f = step(f, 1)
    <2> DEFINE T == {d \in 0..(N - 1) : ~\E f : f = step(f, N - d)}
    <2>1. T = {}
      <3> SUFFICES ASSUME T # {}
                   PROVE  FALSE
        OBVIOUS
      <3>1. T \in SUBSET Nat
        BY <1>2
      <3>2. PICK d \in T : \A e \in T : d <= e
        <4> HIDE DEF T
        <4> QED BY <3>1, LeastExists
      <3>3. CASE d = 0
        <4> DEFINE z == [p \in N..N |-> 0]
        <4>1. z = step(z, N)
          BY <1>2
        <4>2. \E f : f = step(f, N - 0)
          <5>1. N - 0 = N
            BY <1>2
          <5> HIDE DEF step
          <5> QED BY <4>1, <5>1
        <4> QED BY <3>2, <3>3, <4>2
      <3>4. CASE d # 0
        <4>1. d - 1 \in 0..(N - 1) /\ d - 1 \notin T /\ N - d \in 1..N
          <5>1. d \in 0..(N - 1)
            OBVIOUS
          <5>2. d - 1 \in 0..(N - 1) /\ N - d \in 1..N /\ ~(d <= d - 1)
            BY <1>2, <3>4, <5>1
          <5> HIDE DEF T
          <5> QED BY <3>2, <5>2
        <4>2. PICK g : g = step(g, N - (d - 1))
          BY <4>1
        <4> DEFINE a == N - d
                   h == [p \in a..N |-> IF p = a THEN (IF p > n THEN 0 ELSE IF p \in M THEN 1 + g[p + k]
                                                       ELSE g[p + 1])
                                        ELSE g[p]]
        <4>3. ASSUME NEW p \in a..N
              PROVE  h[p] = step(h, a)[p]
          <5>1. a \in 1..N /\ p \in Nat
            BY <1>2, <4>1
          <5>2. p <= n => h[p + 1] = g[p + 1] /\ p + 1 \in a..N
            BY <1>2, <5>1
          <5>3. p \in M => h[p + k] = g[p + k] /\ p + k \in a..N
            BY <1>2, <1>3, <5>1
          <5>4. p # a => g[p] = IF p > n THEN 0 ELSE IF p \in M THEN 1 + g[p + k] ELSE g[p + 1]
            BY <1>2, <4>2, <5>1
          <5> QED BY <1>2, <5>1, <5>2, <5>3, <5>4
        <4>4. h = step(h, a)
          BY <4>3
        <4> QED BY <3>2, <4>4
      <3> QED BY <3>3, <3>4
    <2>2. N - 1 \in 0..(N - 1) /\ N - (N - 1) = 1
      BY <1>2
    <2> QED BY <2>1, <2>2
  <1>5. from = step(from, 1)
    <2> HIDE DEF step
    <2> QED BY <1>4
  <1> HIDE DEF from
  <1>6. \A p \in 1..N : from[p] = IF p > n THEN 0 ELSE IF p \in M THEN 1 + from[p + k] ELSE from[p + 1]
    BY <1>5
  <1>7. \A p \in 1..N : from[p] \in Nat
    <2> DEFINE T == {p \in 1..N : from[p] \notin Nat}
    <2> SUFFICES ASSUME T # {}
                 PROVE  FALSE
      OBVIOUS
    <2>1. T \in SUBSET (0..N)
      BY <1>2
    <2>2. PICK p \in T : \A q \in T : p >= q
      <3> HIDE DEF T
      <3> QED BY <1>2, <2>1, GreatestExists
    <2>3. p \in 1..N /\ \A q \in 1..N : q > p => from[q] \in Nat
      BY <1>2, <2>2
    <2>4. p <= n => p + 1 \in 1..N /\ p + 1 > p
      BY <1>2, <2>3
    <2>5. p \in M => p + k \in 1..N /\ p + k > p
      BY <1>2, <1>3, <2>3
    <2> QED BY <1>2, <1>6, <2>2, <2>3, <2>4, <2>5
  <1>8. i \in M /\ j \in M /\ (\A m \in M : i <= m) /\ j >= i + k
    BY DEF M, k
  <1>9. ASSUME NEW m \in M
        PROVE  \A p \in 1..m : from[p] >= 1
    <2>0. m \in Nat /\ m >= 1 /\ m <= n
      BY <1>2, <1>3
    <2> DEFINE T == {p \in 1..m : ~(from[p] >= 1)}
    <2> SUFFICES ASSUME T # {}
                 PROVE  FALSE
      OBVIOUS
    <2>1. T \in SUBSET (0..m)
      BY <2>0
    <2>2. PICK p \in T : \A q \in T : p >= q
      <3> HIDE DEF T
      <3> QED BY <2>0, <2>1, GreatestExists
    <2>3. p \in 1..N /\ p \in 1..m /\ \A q \in 1..m : q > p => from[q] >= 1
      BY <1>2, <2>0, <2>2
    <2>4. p \notin M
      <3>1. p \in M => p + k \in 1..N
        BY <1>2, <1>3, <2>3
      <3> QED BY <1>2, <1>6, <1>7, <2>0, <2>2, <2>3, <3>1
    <2>5. p + 1 \in 1..m /\ p + 1 > p
      BY <2>0, <2>3, <2>4
    <2> QED BY <1>2, <1>6, <2>0, <2>2, <2>3, <2>4, <2>5
  <1>10. \A p \in 1..i : from[p] >= 2
    <2>0. i \in Nat /\ i >= 1 /\ i <= n
      BY <1>2, <1>3, <1>8
    <2> DEFINE T == {p \in 1..i : ~(from[p] >= 2)}
    <2> SUFFICES ASSUME T # {}
                 PROVE  FALSE
      OBVIOUS
    <2>1. T \in SUBSET (0..i)
      BY <2>0
    <2>2. PICK p \in T : \A q \in T : p >= q
      <3> HIDE DEF T
      <3> QED BY <2>0, <2>1, GreatestExists
    <2>3. p \in 1..N /\ p \in 1..i /\ p <= n /\ \A q \in 1..i : q > p => from[q] >= 2
      BY <1>2, <2>0, <2>2
    <2>4. p # i
      <3>1. i + k \in 1..j /\ i + k \in 1..N
        BY <1>2, <1>3, <1>8
      <3>2. from[i + k] >= 1 /\ from[i + k] \in Nat
        BY <1>7, <1>8, <1>9, <3>1
      <3> QED BY <1>2, <1>6, <1>8, <2>0, <2>2, <2>3, <3>2
    <2>5. p + 1 \in 1..i /\ p + 1 > p /\ p < i
      BY <2>0, <2>3, <2>4
    <2>6. p \notin M
      BY <1>3, <1>8, <2>0, <2>3, <2>5
    <2> QED BY <1>2, <1>6, <2>2, <2>3, <2>5, <2>6
  <1>11. from[1] >= 2 /\ from[1] \in Nat
    BY <1>2, <1>3, <1>7, <1>8, <1>10
  <1> QED BY <1>1, <1>11

\* At a match the text holds the units of what is looked for.
LEMMA MatchUnits ==
  ASSUME NEW t \in Seq(Char), NEW old \in Seq(Char), NEW m \in Matches(t, old)
  PROVE  /\ m \in Nat /\ m >= 1 /\ m + Len(old) <= Len(t) + 1
         /\ SubSeq(t, m, m + Len(old) - 1) = old
         /\ \A x \in 1..Len(old) : old[x] = t[m + x - 1]
  <1>1. Len(t) \in Nat /\ Len(old) \in Nat /\ \A x \in 1..Len(t) : t[x] \in Char
    BY LenProperties
  <1>2. /\ m \in Nat /\ m >= 1 /\ m + Len(old) <= Len(t) + 1
        /\ SubSeq(t, m, m + Len(old) - 1) = old
    BY <1>1 DEF Matches, At
  <1>3. \A x \in 1..(m + Len(old) - 1) - m + 1 :
           SubSeq(t, m, m + Len(old) - 1)[x] = t[m + x - 1]
    <2>1. \A x \in m..(m + Len(old) - 1) : t[x] \in Char
      BY <1>1, <1>2
    <2>2. m \in Int /\ m + Len(old) - 1 \in Int
      BY <1>1, <1>2
    <2> QED BY <2>1, <2>2, SubSeqProperties
  <1>4. (m + Len(old) - 1) - m + 1 = Len(old)
    BY <1>1, <1>2
  <1> QED BY <1>2, <1>3, <1>4

\* Two occurrences that share units make the text overlap itself.
LEMMA OverlapShows ==
  ASSUME NEW t \in Seq(Char), NEW old \in Seq(Char),
         NEW i \in Matches(t, old), NEW j \in Matches(t, old),
         i < j, j < i + Len(old)
  PROVE  SelfOverlapping(old)
  <1> DEFINE k == Len(old)
             n == i + Len(old) - j
             a == SubSeq(old, 1, n)
             b == SubSeq(old, k - n + 1, k)
  <1>1. /\ k \in Nat /\ i \in Nat /\ j \in Nat
        /\ \A x \in 1..k : old[x] \in Char
    BY MatchUnits, LenProperties
  <1>2. /\ \A x \in 1..k : old[x] = t[i + x - 1]
        /\ \A x \in 1..k : old[x] = t[j + x - 1]
    BY MatchUnits
  <1>3. n \in 1..(k - 1) /\ i + (k - n) = j
    BY <1>1
  <1> HIDE DEF k, n
  <1>4. a \in Seq(Char) /\ Len(a) = n /\ \A x \in 1..n : a[x] = old[x]
    <2>1. \A x \in 1..n : old[x] \in Char
      BY <1>1, <1>3
    <2>2. /\ SubSeq(old, 1, n) \in Seq(Char)
          /\ Len(SubSeq(old, 1, n)) = IF 1 <= n THEN n - 1 + 1 ELSE 0
          /\ \A x \in 1..n - 1 + 1 : SubSeq(old, 1, n)[x] = old[1 + x - 1]
      BY <1>3, <2>1, SubSeqProperties
    <2>3. n - 1 + 1 = n /\ 1 <= n /\ \A x \in 1..n : 1 + x - 1 = x
      BY <1>1, <1>3
    <2> QED BY <2>2, <2>3
  <1>5. b \in Seq(Char) /\ Len(b) = n /\ \A x \in 1..n : b[x] = old[k - n + x]
    <2>1. \A x \in (k - n + 1)..k : old[x] \in Char
      BY <1>1, <1>3
    <2>2. /\ b \in Seq(Char)
          /\ Len(b) = IF k - n + 1 <= k THEN k - (k - n + 1) + 1 ELSE 0
          /\ \A x \in 1..k - (k - n + 1) + 1 : b[x] = old[(k - n + 1) + x - 1]
      <3>1. k - n + 1 \in Int /\ k \in Int
        BY <1>1, <1>3
      <3> QED BY <2>1, <3>1, SubSeqProperties
    <2>3. /\ k - (k - n + 1) + 1 = n /\ k - n + 1 <= k
          /\ \A x \in 1..n : (k - n + 1) + x - 1 = k - n + x
      BY <1>1, <1>3
    <2> QED BY <2>2, <2>3
  <1>6. ASSUME NEW x \in 1..n
        PROVE  a[x] = b[x]
    <2>1. x \in 1..k /\ k - n + x \in 1..k /\ j + x - 1 = i + (k - n + x) - 1
      BY <1>1, <1>3
    <2>2. old[x] = t[j + x - 1] /\ old[k - n + x] = t[i + (k - n + x) - 1]
      BY <1>2, <2>1
    <2> QED BY <1>4, <1>5, <2>1, <2>2
  <1>7. a = b
    <2> HIDE DEF a, b
    <2> QED BY <1>4, <1>5, <1>6, SeqEqual
  <1> QED BY <1>3, <1>7 DEF SelfOverlapping, k

\* When the script does not refuse, the one occurrence is what it replaces.
LEMMA EditIsAsked ==
  ASSUME NEW q, q.old \in Seq(Char), q.new \in Seq(Char), NEW t \in Seq(Char),
         Matches(t, q.old) # {}, ~(count(t, q.old) > 1)
  PROVE  /\ replace(t, q.old, q.new) \in Edits(q, t)
         /\ replace(t, q.old, q.new) \in Seq(Char)
  <1> DEFINE old == q.old
             M == Matches(t, old)
             i == Min(M)
             k == Len(old)
             places == {j \in 0..(Len(t) - k) : SubSeq(t, j + 1, j + k) = old}
  <1>1. Len(t) \in Nat /\ k \in Nat
    BY LenProperties
  <1>2. M \in SUBSET Nat /\ M # {}
    BY MatchUnits
  <1>3. i \in M /\ \A m \in M : i <= m
    <2> HIDE DEF M
    <2> QED BY <1>2, MinIsLeast
  <1>4. replace(t, old, q.new) = SubSeq(t, 1, i - 1) \o q.new \o SubSeq(t, i + k, Len(t))
    BY DEF replace
  <1> HIDE DEF i
  <1>5. /\ i \in Nat /\ i >= 1 /\ i + k <= Len(t) + 1
        /\ SubSeq(t, i, i + k - 1) = old
    BY <1>3, MatchUnits
  <1>6. ASSUME NEW j \in M, ~SelfOverlapping(old)
        PROVE  j = i
    <2>1. CASE old = <<>>
      <3>1. k = 0 /\ count(t, old) = Len(t) + 1
        BY <2>1, EmptySeq DEF count
      <3>2. M \subseteq 1..1
        BY <1>1, <3>1 DEF Matches
      <3> QED BY <1>3, <3>2
    <2>2. CASE old # <<>>
      <3>1. j \in Nat /\ i <= j
        BY <1>2, <1>3
      <3>2. ~(j >= i + k)
        BY <1>3, <2>2, CountsApart
      <3>3. ~(i < j /\ j < i + k)
        BY <1>3, <1>6, OverlapShows
      <3> QED BY <1>1, <1>5, <3>1, <3>2, <3>3
    <2> QED BY <2>1, <2>2
  <1>7. PICK h \in 0..(Len(t) - k) :
           h + 1 = i /\ h = i - 1 /\ h + k = i + k - 1 /\ h + k + 1 = i + k
    <2>1. i - 1 \in 0..(Len(t) - k) /\ (i - 1) + 1 = i /\ (i - 1) + k = i + k - 1 /\ (i - 1) + k + 1 = i + k
      <3> HIDE DEF k
      <3> QED BY <1>1, <1>5
    <2> QED BY <2>1
  <1>8. h \in places
    BY <1>5, <1>7
  <1>9. ASSUME NEW j \in places, ~SelfOverlapping(old)
        PROVE  j = h
    <2>1. j + 1 \in 1..(Len(t) - k + 1) /\ (j + 1) + k - 1 = j + k /\ j \in Int
      <3> HIDE DEF k
      <3> QED BY <1>1
    <2>2. j + 1 \in M
      BY <2>1 DEF Matches, At
    <2>3. j + 1 = i
      BY <1>6, <1>9, <2>2
    <2> QED BY <1>1, <1>5, <1>7, <2>1, <2>3
  <1>10. SelfOverlapping(old) \/ places = {h}
    <2> HIDE DEF places
    <2> QED BY <1>8, <1>9
  <1>11. replace(t, old, q.new) = SubSeq(t, 1, h) \o q.new \o SubSeq(t, h + k + 1, Len(t))
    BY <1>4, <1>7
  <1>12. replace(t, old, q.new) \in Edits(q, t)
    <2>1. Edits(q, t) = {SubSeq(t, 1, j) \o q.new \o SubSeq(t, j + k + 1, Len(t)) :
                           j \in {l \in places : SelfOverlapping(old) \/ places = {l}}}
      BY Zenon DEF Edits
    <2> HIDE DEF places, k, old
    <2> QED BY <1>8, <1>10, <1>11, <2>1
  <1>13. replace(t, old, q.new) \in Seq(Char)
    <2>1. SubSeq(t, 1, i - 1) \in Seq(Char)
      <3>1. \A x \in 1..(i - 1) : t[x] \in Char
        BY <1>1, <1>5, ElementOfSeq
      <3> QED BY <1>5, <3>1, SubSeqProperties
    <2>2. SubSeq(t, i + k, Len(t)) \in Seq(Char)
      <3>1. \A x \in (i + k)..Len(t) : t[x] \in Char
        BY <1>1, <1>5, ElementOfSeq
      <3>2. i + k \in Int /\ Len(t) \in Int
        BY <1>1, <1>5
      <3> QED BY <3>1, <3>2, SubSeqProperties
    <2>3. SubSeq(t, 1, i - 1) \o q.new \in Seq(Char)
      BY <2>1, ConcatProperties
    <2>4. (SubSeq(t, 1, i - 1) \o q.new) \o SubSeq(t, i + k, Len(t)) \in Seq(Char)
      BY <2>2, <2>3, ConcatProperties
    <2> QED BY <1>4, <2>4
  <1> QED BY <1>12, <1>13

\* A beginning of a text written over another is part of that write.
LEMMA PrefixIsPartly ==
  ASSUME NEW e \in Seq(Char), NEW b, NEW p \in Prefixes(e)
  PROVE  Partly(e, b, Over(p, b))
  <1>1. PICK l \in 0..Len(e) : p = SubSeq(e, 1, l)
    BY DEF Prefixes
  <1>2. Len(p) = l
    <2>1. Len(e) \in Nat /\ \A x \in 1..Len(e) : e[x] \in Char
      BY LenProperties, ElementOfSeq
    <2>2. l \in Int /\ \A x \in 1..l : e[x] \in Char
      BY <2>1
    <2>3. Len(SubSeq(e, 1, l)) = IF 1 <= l THEN l - 1 + 1 ELSE 0
      BY <2>2, SubSeqProperties
    <2>4. (IF 1 <= l THEN l - 1 + 1 ELSE 0) = l
      BY <2>1
    <2> QED BY <1>1, <2>3, <2>4
  <1> QED BY <1>1, <1>2 DEF Partly, Over

\* So is the whole of it, and so is nothing.
LEMMA WholeIsPartly ==
  ASSUME NEW e \in Seq(Char), NEW b
  PROVE  Partly(e, b, Over(e, b))
  <1>1. Len(e) \in Nat /\ SubSeq(e, 1, Len(e)) = e
    BY LenProperties, SubSeqFull
  <1>2. e \in Prefixes(e)
    <2>1. Len(e) \in 0..Len(e)
      BY <1>1
    <2>2. \E l \in 0..Len(e) : e = SubSeq(e, 1, l)
      BY <1>1, <2>1
    <2> QED BY <2>2 DEF Prefixes
  <1> QED BY <1>2, PrefixIsPartly

LEMMA NothingIsPartly ==
  ASSUME NEW e \in Seq(Char)
  PROVE  Partly(e, <<>>, <<>>)
  <1>1. Len(e) \in Nat /\ SubSeq(e, 1, 0) = <<>>
    BY LenProperties, SubSeqEmpty
  <1>2. SubSeq(<<>>, 1, 0) = <<>> /\ Len(<<>>) = 0 /\ <<>> \o <<>> = <<>>
    OBVIOUS
  <1> QED BY <1>1, <1>2 DEF Partly

-------------------------------------------------------------------------------
(* Files *)

\* The text u is an edit that was asked for.
EditOf(u) == u \in Seq(Char) /\ u \in Edits(req, Universal(before.text))

\* What a reply of create_file or str_replace says, by its exit, of the file on disk.
FileReply ==
    /\ call.argv = NotShell
    /\ call.exit = 0 =>
         IF req.tool = "create_file" THEN file = TextFile(req.new)
         ELSE file.kind = "text" /\ file.text \in Edits(req, Universal(before.text))
    /\ call.exit # 0 => file = before \/ LeftBehind

FileInv ==
    req.tool \in {"create_file", "str_replace"} =>
        /\ before.text \in Seq(STRING)
        /\ pc \in {"start", "create_file", "str_replace"} => file = before
        /\ pc = "create.cut" => file = before \/ file = TextFile(<<>>)
        /\ pc = "create.write" => file = TextFile(<<>>)
        /\ pc = "replace.write" => file = before /\ EditOf(buffer)
        /\ pc = "replace.cut" => file = TextFile(Over(buffer, before.text)) /\ EditOf(buffer)
        /\ pc = "replied" => FileReply
        /\ pc = "done" =>
             \/ result.kind = "correlation"
             \/ IsReply(call) /\ result = projectCallToolResult(call) /\ FileReply

\* What a write leaves that did not come to its end.
LEMMA FlushedIsPartly ==
  ASSUME NEW e \in Seq(Char), NEW x \in Flushed(e)
  PROVE  x = file \/ (x.kind = "text" /\ Partly(e, file.text, x.text))
  <1>1. CASE Encodes(e)
    <2>1. PICK p \in Prefixes(e) : x = TextFile(Over(p, file.text))
      BY <1>1 DEF Flushed
    <2>2. x.kind = "text" /\ x.text = Over(p, file.text)
      BY <2>1 DEF TextFile
    <2> QED BY <2>2, PrefixIsPartly
  <1>2. CASE ~Encodes(e)
    BY <1>2 DEF Flushed
  <1> QED BY <1>1, <1>2

\* The fields of a text file.
LEMMA TextFileIs ==
  ASSUME NEW t
  PROVE  TextFile(t).kind = "text" /\ TextFile(t).text = t
  BY DEF TextFile

\* A script that ends with an error left the file alone, or part of what it was to write.
LEMMA ErrorReplies ==
  ASSUME FileInv, req.tool \in {"create_file", "str_replace"},
         pc' = "replied", req' = req, before' = before,
         call'.exit # 0, call'.argv = NotShell,
         file' = before \/ LeftBehind'
  PROVE  FileInv'
  <1>1. FileReply'
    BY DEF FileReply
  <1> QED BY <1>1 DEF FileInv

LEMMA ErrorEnds ==
  ASSUME NEW why, Errors(why)
  PROVE  /\ call'.exit # 0 /\ call'.argv = NotShell /\ pc' = "replied" /\ req' = req
         /\ before' = before /\ fault' = why
  BY DEF Errors, Ends

\* What a create that began to write leaves behind.
LEMMA CreateLeaves ==
  ASSUME req \in FileCalls, req' = req, req.tool = "create_file", file'.kind = "text",
         \/ file' = TextFile(<<>>) /\ fault' \in {"io", "killed", "encode"}
         \/ Partly(req.new, <<>>, file'.text) /\ fault' \in {"io", "killed"}
  PROVE  LeftBehind'
  <1>1. req.new \in Seq(Char)
    BY ToolCallAssumption, StringsAreTexts
  <1>2. CASE file' = TextFile(<<>>) /\ fault' \in {"io", "killed", "encode"}
    <2>1. file'.text = <<>>
      BY <1>2, TextFileIs
    <2>2. Partly(req.new, <<>>, <<>>)
      BY <1>1, NothingIsPartly
    <2>3. Partly(req'.new, <<>>, file'.text)
      BY <2>1, <2>2
    <2> QED BY <1>2, <2>1, <2>3 DEF LeftBehind, Partly
  <1>3. CASE Partly(req.new, <<>>, file'.text) /\ fault' \in {"io", "killed"}
    <2>1. Partly(req'.new, <<>>, file'.text)
      BY <1>3
    <2> QED BY <1>3, <2>1 DEF LeftBehind, Partly
  <1> QED BY <1>2, <1>3

\* What an edit that began to write leaves behind.
LEMMA ReplaceLeaves ==
  ASSUME req' = req, before' = before, req.tool = "str_replace", file'.kind = "text",
         fault' \in {"io", "killed"},
         NEW e, EditOf(e), Partly(e, before.text, file'.text)
  PROVE  LeftBehind'
  <1>1. e \in Edits(req', Universal(before'.text)) /\ Partly(e, before'.text, file'.text)
    BY DEF EditOf
  <1>2. \E f \in Edits(req', Universal(before'.text)) : Partly(f, before'.text, file'.text)
    BY <1>1
  <1> QED BY <1>2 DEF LeftBehind, Partly, Edits, Universal, SelfOverlapping

\* So does one that was written whole and not cut yet.
LEMMA CutMissing ==
  ASSUME req' = req, before' = before, req.tool = "str_replace",
         fault' \in {"io", "killed"}, EditOf(buffer),
         file = TextFile(Over(buffer, before.text)), file' = file
  PROVE  LeftBehind'
  <1>1. file'.kind = "text" /\ file'.text = Over(buffer, before.text)
    BY TextFileIs
  <1>2. Partly(buffer, before.text, file'.text)
    BY <1>1, WholeIsPartly DEF EditOf
  <1> QED BY <1>1, <1>2, ReplaceLeaves

LEMMA CreateSteps ==
  ASSUME ReqInv, FileInv, CreateOpen \/ CreateCut \/ CreateWrite
  PROVE  FileInv'
  <1>1. req.tool = "create_file" /\ req \in FileCalls
    BY DEF ReqInv, FileToolScripts, CreateOpen, CreateCut, CreateWrite, Scripts
  <1>2. req.new \in Seq(Char)
    BY <1>1, ToolCallAssumption, StringsAreTexts
  <1>3. TextFile(<<>>).kind = "text" /\ TextFile(<<>>).text = <<>>
    BY TextFileIs
  <1>4. CASE CreateOpen
    <2>1. file = before
      BY <1>1, <1>4 DEF CreateOpen, FileInv
    <2>2. CASE Errors("none") /\ file' = file
      BY <1>1, <2>1, <2>2, ErrorEnds, ErrorReplies
    <2>3. CASE Goes("create.cut") /\ (file' = file \/ file' = TextFile(<<>>))
      <3>1. req' = req /\ before' = before /\ pc' = "create.cut"
        BY <2>3 DEF Goes
      <3>2. (file = before \/ file = TextFile(<<>>))'
        BY <2>1, <2>3, <3>1 DEF TextFile
      <3> QED BY <1>1, <3>1, <3>2 DEF FileInv
    <2> QED BY <1>4, <2>2, <2>3 DEF CreateOpen
  <1>5. CASE CreateCut
    <2>1. file = before \/ file = TextFile(<<>>)
      BY <1>1, <1>5 DEF CreateCut, FileInv
    <2>2. CASE Errors("io") /\ file' = file
      <3>1. fault' = "io" /\ req' = req
        BY <2>2, ErrorEnds
      <3>2. file' = before \/ LeftBehind'
        BY <1>1, <1>3, <2>1, <2>2, <3>1, CreateLeaves
      <3> QED BY <1>1, <2>2, <3>2, ErrorEnds, ErrorReplies
    <2>3. CASE Goes("create.write") /\ file' = TextFile(<<>>)
      <3>1. req' = req /\ before' = before /\ pc' = "create.write"
        BY <2>3 DEF Goes
      <3>2. (file = TextFile(<<>>))'
        BY <2>3 DEF TextFile
      <3> QED BY <1>1, <3>1, <3>2 DEF FileInv
    <2> QED BY <1>5, <2>2, <2>3 DEF CreateCut
  <1>6. CASE CreateWrite
    <2>1. file = TextFile(<<>>)
      BY <1>1, <1>6 DEF CreateWrite, FileInv
    <2>2. CASE Errors("encode") /\ file' = file
      <3>1. fault' = "encode" /\ req' = req
        BY <2>2, ErrorEnds
      <3>2. LeftBehind'
        BY <1>1, <1>3, <2>1, <2>2, <3>1, CreateLeaves
      <3> QED BY <1>1, <2>2, <3>2, ErrorEnds, ErrorReplies
    <2>3. CASE Errors("io") /\ file' \in Flushed(req.new)
      <3>1. fault' = "io" /\ req' = req
        BY <2>3, ErrorEnds
      <3>2. file' = file \/ (file'.kind = "text" /\ Partly(req.new, file.text, file'.text))
        BY <1>2, <2>3, FlushedIsPartly
      <3>3. LeftBehind'
        BY <1>1, <1>3, <2>1, <3>1, <3>2, CreateLeaves
      <3> QED BY <1>1, <2>3, <3>3, ErrorEnds, ErrorReplies
    <2>4. CASE file' = TextFile(req.new) /\ Succeeds
      <3>1. /\ call'.exit = 0 /\ call'.argv = NotShell /\ pc' = "replied" /\ req' = req
            /\ before' = before
        BY <2>4 DEF Succeeds, Ends
      <3>2. (file = TextFile(req.new))'
        BY <2>4, <3>1 DEF TextFile
      <3>3. FileReply'
        BY <1>1, <3>1, <3>2 DEF FileReply
      <3> QED BY <3>1, <3>3 DEF FileInv
    <2> QED BY <1>6, <2>2, <2>3, <2>4 DEF CreateWrite
  <1> QED BY <1>4, <1>5, <1>6

LEMMA ReplaceSteps ==
  ASSUME ReqInv, FileInv, ReplaceRead \/ ReplaceWrite \/ ReplaceCut
  PROVE  FileInv'
  <1>1. req.tool = "str_replace" /\ req \in FileCalls
    BY DEF ReqInv, FileToolScripts, ReplaceRead, ReplaceWrite, ReplaceCut, Scripts
  <1>2. before.text \in Seq(STRING) /\ req.old \in Seq(Char) /\ req.new \in Seq(Char)
    BY <1>1, ToolCallAssumption, StringsAreTexts DEF FileInv
  <1>3. CASE ReplaceRead
    <2> DEFINE content == Universal(file.text)
    <2>1. file = before /\ file' = file
      BY <1>1, <1>3 DEF ReplaceRead, FileInv
    <2>2. CASE Errors("none")
      BY <1>1, <2>1, <2>2, ErrorEnds, ErrorReplies
    <2>3. ASSUME Matches(content, req.old) # {}, ~(count(content, req.old) > 1),
                 buffer' = replace(content, req.old, req.new), Goes("replace.write")
          PROVE  FileInv'
      <3>1. req' = req /\ before' = before /\ pc' = "replace.write"
        BY <2>3 DEF Goes
      <3>2. content \in Seq(Char) /\ content = Universal(before.text)
        BY <1>2, <2>1, ReadIsText
      <3>3. EditOf(buffer')
        BY <1>2, <2>3, <3>2, EditIsAsked DEF EditOf
      <3>4. EditOf(buffer)'
        BY <3>1, <3>3 DEF EditOf
      <3> QED BY <1>1, <2>1, <3>1, <3>4, <1>2 DEF FileInv
    <2> QED BY <1>3, <2>2, <2>3 DEF ReplaceRead
  <1>4. CASE ReplaceWrite
    <2>1. file = before /\ EditOf(buffer) /\ buffer' = buffer
      BY <1>1, <1>4 DEF ReplaceWrite, FileInv
    <2>2. CASE Errors("none") /\ file' = file
      BY <1>1, <2>1, <2>2, ErrorEnds, ErrorReplies
    <2>3. CASE Errors("encode") /\ file' = file
      BY <1>1, <2>1, <2>3, ErrorEnds, ErrorReplies
    <2>4. CASE Errors("io") /\ file' \in Flushed(buffer)
      <3>1. fault' = "io" /\ req' = req /\ before' = before
        BY <2>4, ErrorEnds
      <3>2. file' = file \/ (file'.kind = "text" /\ Partly(buffer, file.text, file'.text))
        BY <2>1, <2>4, FlushedIsPartly DEF EditOf
      <3>3. file' = before \/ LeftBehind'
        BY <1>1, <2>1, <3>1, <3>2, ReplaceLeaves
      <3> QED BY <1>1, <2>4, <3>3, ErrorEnds, ErrorReplies
    <2>5. CASE Goes("replace.cut") /\ file' = TextFile(Over(buffer, file.text))
      <3>1. req' = req /\ before' = before /\ pc' = "replace.cut"
        BY <2>5 DEF Goes
      <3>2. EditOf(buffer)'
        BY <2>1, <3>1 DEF EditOf
      <3>3. (file = TextFile(Over(buffer, before.text)))'
        BY <2>1, <2>5, <3>1 DEF TextFile, Over
      <3> QED BY <1>1, <1>2, <3>1, <3>2, <3>3 DEF FileInv
    <2> QED BY <1>4, <2>2, <2>3, <2>4, <2>5 DEF ReplaceWrite
  <1>5. CASE ReplaceCut
    <2>1. EditOf(buffer) /\ file = TextFile(Over(buffer, before.text))
      BY <1>1, <1>5 DEF ReplaceCut, FileInv
    <2>2. CASE Errors("io") /\ file' = file
      <3>1. fault' = "io" /\ req' = req /\ before' = before
        BY <2>2, ErrorEnds
      <3>2. LeftBehind'
        BY <1>1, <2>1, <2>2, <3>1, CutMissing
      <3> QED BY <1>1, <2>2, <3>2, ErrorEnds, ErrorReplies
    <2>3. CASE file' = TextFile(buffer) /\ Succeeds
      <3>1. /\ call'.exit = 0 /\ call'.argv = NotShell /\ pc' = "replied" /\ req' = req
            /\ before' = before
        BY <2>3 DEF Succeeds, Ends
      <3>2. file'.kind = "text" /\ file'.text = buffer
        BY <2>3, TextFileIs
      <3>3. EditOf(file.text)'
        BY <2>1, <3>1, <3>2 DEF EditOf
      <3>4. FileReply'
        BY <1>1, <3>1, <3>2, <3>3 DEF FileReply, EditOf
      <3> QED BY <1>1, <1>2, <3>1, <3>4 DEF FileInv
    <2> QED BY <1>5, <2>2, <2>3 DEF ReplaceCut
  <1> QED BY <1>3, <1>4, <1>5

LEMMA KilledStep ==
  ASSUME ReqInv, FileInv, Killed
  PROVE  FileInv'
  <1> SUFFICES ASSUME req.tool \in {"create_file", "str_replace"}
               PROVE  FileInv'
    <2>1. req' = req
      BY DEF Killed, Ends
    <2> QED BY <2>1 DEF FileInv
  <1>1. /\ req' = req /\ before' = before /\ pc' = "replied" /\ fault' = "killed"
        /\ call'.exit # 0 /\ call'.argv = NotShell
    BY DEF Killed, Ends
  <1>2. /\ req \in FileCalls /\ pc \in Scripts
        /\ pc \in {"create.cut", "create.write"} => req.tool = "create_file"
        /\ pc \in {"replace.write", "replace.cut"} => req.tool = "str_replace"
        /\ pc # "view"
    BY DEF ReqInv, Killed, FileToolScripts
  <1>3. TextFile(<<>>).kind = "text" /\ TextFile(<<>>).text = <<>>
    BY TextFileIs
  <1> SUFFICES file' = before \/ LeftBehind'
    BY <1>1, ErrorReplies
  <1>4. CASE pc \in {"create_file", "str_replace"}
    BY <1>4 DEF Killed, FileInv
  <1>5. CASE pc \in {"create.cut", "create.write"}
    <2>1. file = before \/ file = TextFile(<<>>)
      BY <1>5 DEF FileInv
    <2>2. CASE file' = file
      BY <1>1, <1>2, <1>3, <1>5, <2>1, <2>2, CreateLeaves
    <2>3. CASE pc = "create.write" /\ file' \in Flushed(req.new)
      <3>1. req.new \in Seq(Char) /\ file = TextFile(<<>>)
        BY <1>2, <2>3, ToolCallAssumption, StringsAreTexts DEF FileInv
      <3>2. file' = file \/ (file'.kind = "text" /\ Partly(req.new, file.text, file'.text))
        BY <2>3, <3>1, FlushedIsPartly
      <3> QED BY <1>1, <1>2, <1>3, <1>5, <3>1, <3>2, CreateLeaves
    <2> QED BY <1>5, <2>2, <2>3 DEF Killed
  <1>6. CASE pc = "replace.write"
    <2>1. file = before /\ EditOf(buffer)
      BY <1>6 DEF FileInv
    <2>2. CASE file' = file
      BY <2>1, <2>2
    <2>3. CASE file' \in Flushed(buffer)
      <3>1. file' = file \/ (file'.kind = "text" /\ Partly(buffer, file.text, file'.text))
        BY <2>1, <2>3, FlushedIsPartly DEF EditOf
      <3> QED BY <1>1, <1>2, <1>6, <2>1, <3>1, ReplaceLeaves
    <2> QED BY <1>6, <2>2, <2>3 DEF Killed
  <1>7. CASE pc = "replace.cut"
    <2>1. EditOf(buffer) /\ file = TextFile(Over(buffer, before.text)) /\ file' = file
      BY <1>7 DEF FileInv, Killed
    <2> QED BY <1>1, <1>2, <1>7, <2>1, CutMissing
  <1> QED BY <1>2, <1>4, <1>5, <1>6, <1>7 DEF Scripts, FileToolScripts

\* A reply stays true while it is relayed.
LEMMA ReplyKeeps ==
  ASSUME FileReply, req' = req, call' = call, file' = file, before' = before, fault' = fault
  PROVE  FileReply'
  <1>1. Edits(req, Universal(before.text))' = Edits(req, Universal(before.text))
    OBVIOUS
  <1>2. LeftBehind => LeftBehind'
    BY <1>1 DEF LeftBehind
  <1> QED BY <1>1, <1>2 DEF FileReply, TextFile

LEMMA FileStep ==
  ASSUME ReqInv, ResultInv, FileInv, [Next]_vars
  PROVE  FileInv'
  <1>1. CASE UNCHANGED vars
    <2>1. /\ req' = req /\ pc' = pc /\ file' = file /\ before' = before /\ buffer' = buffer
          /\ call' = call /\ result' = result /\ fault' = fault
      BY <1>1 DEF vars
    <2>2. FileReply => FileReply'
      BY <2>1, ReplyKeeps
    <2>3. EditOf(buffer) => EditOf(buffer)'
      BY <2>1 DEF EditOf
    <2>4. TextFile(Over(buffer, before.text))' = TextFile(Over(buffer, before.text))
      BY <2>1 DEF Over, TextFile
    <2> QED BY <2>1, <2>2, <2>3, <2>4 DEF FileInv, IsReply, TextFile
  <1>2. CASE CreateOnly
    <2>1. pc' = "done" /\ result'.kind = "correlation" /\ req' = req /\ before' = before
      BY <1>2 DEF CreateOnly
    <2> QED BY <2>1 DEF FileInv
  <1>3. CASE Exec
    <2>1. pc = "start" /\ pc' = req.tool /\ req' = req /\ file' = file /\ before' = before
      BY <1>3 DEF Exec
    <2> QED BY <2>1 DEF FileInv
  <1>4. CASE Relay
    <2>1. /\ pc' = "done" /\ result' = projectCallToolResult(call) /\ req' = req
          /\ pc = "replied" /\ call' = call /\ file' = file /\ before' = before /\ fault' = fault
      BY <1>4 DEF Relay
    <2>2. IsReply(call)' /\ result' = projectCallToolResult(call)'
      BY <2>1 DEF ResultInv
    <2>3. FileReply => FileReply'
      BY <2>1, ReplyKeeps
    <2> QED BY <2>1, <2>2, <2>3 DEF FileInv
  <1>5. CASE View
    <2>1. req.tool = "view" /\ req' = req
      BY <1>5, ScriptGoes DEF View, ReqInv, FileToolScripts
    <2> QED BY <2>1 DEF FileInv
  <1>6. CASE Killed
    BY <1>6, KilledStep
  <1>7. CASE CreateOpen \/ CreateCut \/ CreateWrite
    BY <1>7, CreateSteps
  <1>8. CASE ReplaceRead \/ ReplaceWrite \/ ReplaceCut
    BY <1>8, ReplaceSteps
  <1> QED BY <1>1, <1>2, <1>3, <1>4, <1>5, <1>6, <1>7, <1>8 DEF Next

\* What create_file and str_replace report is what is on disk, for every text, every point
\* at which a file operation fails and every point, inside a write too, at which the script
\* is killed: a success left the text asked for or an edit of the text as it was read; an
\* error left the file alone, or a beginning of what it was to write.
THEOREM FileAsAskedHolds == Spec => []FileAsAsked
  <1>1. Init => FileInv
    <2> SUFFICES ASSUME Init, req.tool \in {"create_file", "str_replace"}
                 PROVE  /\ before.text \in Seq(STRING) /\ file = before /\ pc = "start"
      BY DEF FileInv
    <2>1. req \in FileCalls /\ pc = "start" /\ file \in Files /\ before = file
      BY DEF Init, Shell0
    <2> QED BY <2>1, ToolCallAssumption
  <1>2. ReqInv /\ ResultInv /\ FileInv /\ [Next]_vars => FileInv'
    BY FileStep
  <1>3. FileInv => FileAsAsked
    <2> SUFFICES ASSUME FileInv, pc = "done", result.kind = "text",
                        req.tool \in {"create_file", "str_replace"}
                 PROVE  FileAsAsked
      BY DEF FileAsAsked
    <2>1. IsReply(call) /\ result = projectCallToolResult(call) /\ FileReply
      BY DEF FileInv
    <2>2. result = TextResult(call)
      BY <2>1, Shapes
    <2>3. ~Benign(call.argv, call.exit)
      BY <2>1 DEF FileReply, Benign
    <2>4. result.isError <=> call.exit # 0
      BY <2>1, <2>2, <2>3, TextShape
    <2> QED BY <2>1, <2>4 DEF FileAsAsked, FileReply
  <1> QED BY <1>1, <1>2, <1>3, ResultInvariant, PTL DEF Spec

-------------------------------------------------------------------------------
(* Which command decides the exit: the quote scan and the shell's reader as walks over *)
(* the units of a line.                                                                 *)

\* One step of the quote scan, and one of the shell's reader.
ScanStep(o, u) ==
    IF u \notin {"squote", "dquote"} THEN o
    ELSE IF o = "" THEN u
    ELSE IF o = u THEN "" ELSE o

ReadStep(p, u) ==
    CASE p.esc -> [p EXCEPT !.esc = FALSE, !.bare = FALSE]
      [] ~p.esc /\ u = "backslash" /\ p.open # "squote" ->
           [p EXCEPT !.esc = TRUE, !.bare = FALSE]
      [] ~p.esc /\ u \in {"squote", "dquote"} /\ p.open \in {"", u} ->
           [p EXCEPT !.open = IF @ = "" THEN u ELSE "", !.bare = FALSE]
      [] OTHER -> [p EXCEPT !.bare = p.open = ""]

NoQuote == ""
Quotes == {"", "squote", "dquote"}
States == [open : Quotes, esc : BOOLEAN, bare : BOOLEAN]

LEMMA ScanStepType ==
  ASSUME NEW o \in Quotes, NEW u
  PROVE  ScanStep(o, u) \in Quotes
  BY DEF ScanStep, Quotes

\* What a step of the reader does, by its cases.
LEMMA ReadStepIs ==
  ASSUME NEW p \in States, NEW u
  PROVE  /\ ReadStep(p, u) \in States
         /\ p.esc => ReadStep(p, u) = [p EXCEPT !.esc = FALSE, !.bare = FALSE]
         /\ ~p.esc /\ u = "backslash" /\ p.open # "squote" =>
              ReadStep(p, u) = [p EXCEPT !.esc = TRUE, !.bare = FALSE]
         /\ ~p.esc /\ u \in {"squote", "dquote"} /\ p.open \in {"", u} =>
              ReadStep(p, u) = [p EXCEPT !.open = IF p.open = "" THEN u ELSE "", !.bare = FALSE]
         /\ ~p.esc /\ ~(u = "backslash" /\ p.open # "squote")
                   /\ ~(u \in {"squote", "dquote"} /\ p.open \in {"", u}) =>
              ReadStep(p, u) = [p EXCEPT !.bare = (p.open = "")]
  <1>1. CASE p.esc
    BY <1>1 DEF ReadStep, States
  <1>2. CASE ~p.esc /\ u = "backslash" /\ p.open # "squote"
    BY <1>2 DEF ReadStep, States
  <1>3. CASE ~p.esc /\ u \in {"squote", "dquote"} /\ p.open \in {"", u}
    <2>1. ReadStep(p, u) = [p EXCEPT !.open = IF p.open = "" THEN u ELSE "", !.bare = FALSE]
      BY <1>3, Zenon DEF ReadStep
    <2>2. (IF p.open = "" THEN u ELSE "") \in Quotes
      BY <1>3 DEF Quotes
    <2> QED BY <1>3, <2>1, <2>2 DEF States
  <1>4. CASE ~p.esc /\ ~(u = "backslash" /\ p.open # "squote")
                   /\ ~(u \in {"squote", "dquote"} /\ p.open \in {"", u})
    BY <1>4 DEF ReadStep, States
  <1> QED BY <1>1, <1>2, <1>3, <1>4

LEMMA ReadStepType ==
  ASSUME NEW p \in States, NEW u
  PROVE  ReadStep(p, u) \in States
  BY ReadStepIs

\* The functions that the scan and the reader recurse on.
LEMMA ScanWalk ==
  ASSUME NEW line \in Seq(STRING)
  PROVE  \E f \in [0..Len(line) -> Quotes] :
            /\ f[0] = NoQuote
            /\ \A i \in 1..Len(line) : f[i] = ScanStep(f[i - 1], line[i])
            /\ isSingleSimpleCommand(line) <=>
                 \A i \in DOMAIN line : line[i] # "newline" /\ (line[i] = "op" => f[i] # NoQuote)
  <1> DEFINE n == Len(line)
             S == Quotes
             c == NoQuote
             G == [i \in 1..n |-> [o \in S |-> ScanStep(o, line[i])]]
             step(f) == [i \in 0..n |->
                 IF i = 0 THEN NoQuote
                 ELSE IF line[i] \notin {"squote", "dquote"} THEN f[i - 1]
                 ELSE IF f[i - 1] = "" THEN line[i]
                 ELSE IF f[i - 1] = line[i] THEN "" ELSE f[i - 1]]
             open == CHOOSE f : f = step(f)
  <1>1. isSingleSimpleCommand(line) <=>
           \A i \in DOMAIN line : line[i] # "newline" /\ (line[i] = "op" => open[i] # NoQuote)
    BY Zenon DEF isSingleSimpleCommand, NoQuote
  <1>2. n \in Nat /\ \A i \in 1..n : line[i] \in STRING
    BY LenProperties, ElementOfSeq
  <1>3. ASSUME NEW f, NEW i \in 0..n
        PROVE  step(f)[i] = IF i = 0 THEN c ELSE ScanStep(f[i - 1], line[i])
    BY <1>2 DEF ScanStep
  <1>4. G \in [1..n -> [S -> S]]
    BY <1>2, ScanStepType
  <1>5. PICK g \in [0..n -> S] : g[0] = c /\ \A i \in 1..n : g[i] = ScanStep(g[i - 1], line[i])
    <2>1. c \in S
      BY DEF Quotes, NoQuote
    <2>2. PICK g \in [0..n -> S] : g[0] = c /\ \A i \in 1..n : g[i] = G[i][g[i - 1]]
      <3>1. n \in Nat
        BY <1>2
      <3> HIDE DEF G, n, S, c
      <3>2. PICK g : Iterates(g, n, S, c, G)
        BY <1>4, <2>1, <3>1, WalkExists
      <3> QED BY <3>2 DEF Iterates
    <2>3. ASSUME NEW i \in 1..n
          PROVE  G[i][g[i - 1]] = ScanStep(g[i - 1], line[i])
      <3>1. g[i - 1] \in S
        BY <1>2
      <3> HIDE DEF S
      <3> QED BY <3>1
    <2> QED BY <2>2, <2>3
  <1>6. g = step(g)
    <2>1. ASSUME NEW i \in 0..n
          PROVE  g[i] = step(g)[i]
      <3>1. step(g)[i] = IF i = 0 THEN c ELSE ScanStep(g[i - 1], line[i])
        BY <1>3
      <3>2. i # 0 => i \in 1..n
        BY <1>2
      <3> HIDE DEF step, n
      <3> QED BY <1>5, <3>1, <3>2
    <2> DEFINE h == step(g)
    <2>2. h = [i \in 0..n |-> h[i]]
      OBVIOUS
    <2>3. \A i \in 0..n : g[i] = h[i]
      BY <2>1
    <2> HIDE DEF h, n, S
    <2>4. g = h
      BY <2>2, <2>3
    <2> QED BY <2>4 DEF h
  <1>7. open = step(open)
    <2> HIDE DEF step
    <2> QED BY <1>6
  <1> HIDE DEF open
  <1>8. open = [i \in 0..n |-> open[i]]
    <2> DEFINE h == step(open)
    <2>1. h = [i \in 0..n |-> h[i]]
      OBVIOUS
    <2> HIDE DEF h, n
    <2>2. open = h
      BY <1>7 DEF h
    <2> QED BY <2>1, <2>2
  <1>9. open[0] = c /\ \A i \in 1..n : open[i] = ScanStep(open[i - 1], line[i])
    <2>1. \A i \in 0..n : open[i] = IF i = 0 THEN c ELSE ScanStep(open[i - 1], line[i])
      <3> TAKE i \in 0..n
      <3>1. step(open)[i] = IF i = 0 THEN c ELSE ScanStep(open[i - 1], line[i])
        BY <1>3
      <3>2. step(open)[i] = open[i]
        <4> HIDE DEF step
        <4> QED BY <1>7
      <3> QED BY <3>1, <3>2
    <2> HIDE DEF n, c
    <2> QED BY <1>2, <2>1
  <1>10. \A i \in 0..n : open[i] \in S
    <2> DEFINE A == {i \in 0..n : open[i] \in S}
    <2>1. 0 \in A
      <3>1. 0 \in 0..n
        BY <1>2
      <3>2. c \in S
        BY DEF Quotes, NoQuote
      <3> HIDE DEF c, S
      <3> QED BY <1>9, <3>1, <3>2
    <2>2. ASSUME NEW i \in 1..n, i - 1 \in A
          PROVE  i \in A
      <3> HIDE DEF c, S
      <3>1. open[i - 1] \in S /\ open[i] = ScanStep(open[i - 1], line[i]) /\ i \in 0..n
        BY <1>2, <1>9, <2>2
      <3>2. open[i] \in S
        BY <1>2, <3>1, ScanStepType DEF S
      <3> QED BY <3>1, <3>2
    <2>3. \A i \in 0..n : i \in A
      <3> HIDE DEF A, n
      <3> QED BY <1>2, <2>1, <2>2, Climb
    <2> QED BY <2>3
  <1>11. open \in [0..n -> S]
    <2> HIDE DEF n, S
    <2> QED BY <1>8, <1>10
  <1> HIDE DEF S
  <1> QED BY <1>1, <1>9, <1>11 DEF S

LEMMA ReadWalk ==
  ASSUME NEW line \in Seq(STRING)
  PROVE  /\ Reader(line) \in [0..Len(line) -> States]
         /\ Reader(line)[0] = [open |-> NoQuote, esc |-> FALSE, bare |-> FALSE]
         /\ \A i \in 1..Len(line) : Reader(line)[i] = ReadStep(Reader(line)[i - 1], line[i])
  <1> DEFINE n == Len(line)
             S == States
             c == [open |-> NoQuote, esc |-> FALSE, bare |-> FALSE]
             G == [i \in 1..n |-> [p \in S |-> ReadStep(p, line[i])]]
             step(f) == [i \in 0..n |->
                 IF i = 0 THEN [open |-> NoQuote, esc |-> FALSE, bare |-> FALSE]
                 ELSE LET p == f[i - 1]
                          u == line[i]
                      IN  CASE p.esc -> [p EXCEPT !.esc = FALSE, !.bare = FALSE]
                            [] ~p.esc /\ u = "backslash" /\ p.open # "squote" ->
                                 [p EXCEPT !.esc = TRUE, !.bare = FALSE]
                            [] ~p.esc /\ u \in {"squote", "dquote"} /\ p.open \in {"", u} ->
                                 [p EXCEPT !.open = IF @ = "" THEN u ELSE "", !.bare = FALSE]
                            [] OTHER -> [p EXCEPT !.bare = p.open = ""]]
             at == CHOOSE f : f = step(f)
  <1>1. Reader(line) = at
    BY Zenon DEF Reader, NoQuote
  <1>2. n \in Nat /\ \A i \in 1..n : line[i] \in STRING
    BY LenProperties, ElementOfSeq
  <1>3. ASSUME NEW f, NEW i \in 0..n
        PROVE  step(f)[i] = IF i = 0 THEN c ELSE ReadStep(f[i - 1], line[i])
    BY <1>2 DEF ReadStep
  <1>4. G \in [1..n -> [S -> S]]
    BY <1>2, ReadStepType
  <1>5. PICK g \in [0..n -> S] : g[0] = c /\ \A i \in 1..n : g[i] = ReadStep(g[i - 1], line[i])
    <2>1. c \in S
      BY DEF States, Quotes, NoQuote
    <2>2. PICK g \in [0..n -> S] : g[0] = c /\ \A i \in 1..n : g[i] = G[i][g[i - 1]]
      <3>1. n \in Nat
        BY <1>2
      <3> HIDE DEF G, n, S, c
      <3>2. PICK g : Iterates(g, n, S, c, G)
        BY <1>4, <2>1, <3>1, WalkExists
      <3> QED BY <3>2 DEF Iterates
    <2>3. ASSUME NEW i \in 1..n
          PROVE  G[i][g[i - 1]] = ReadStep(g[i - 1], line[i])
      <3>1. g[i - 1] \in S
        BY <1>2
      <3> HIDE DEF S
      <3> QED BY <3>1
    <2> QED BY <2>2, <2>3
  <1>6. g = step(g)
    <2>1. ASSUME NEW i \in 0..n
          PROVE  g[i] = step(g)[i]
      <3>1. step(g)[i] = IF i = 0 THEN c ELSE ReadStep(g[i - 1], line[i])
        BY <1>3
      <3>2. i # 0 => i \in 1..n
        BY <1>2
      <3> HIDE DEF step, n
      <3> QED BY <1>5, <3>1, <3>2
    <2> DEFINE h == step(g)
    <2>2. h = [i \in 0..n |-> h[i]]
      OBVIOUS
    <2>3. \A i \in 0..n : g[i] = h[i]
      BY <2>1
    <2> HIDE DEF h, n, S
    <2>4. g = h
      BY <2>2, <2>3
    <2> QED BY <2>4 DEF h
  <1>7. at = step(at)
    <2> HIDE DEF step
    <2> QED BY <1>6
  <1> HIDE DEF at
  <1>8. at = [i \in 0..n |-> at[i]]
    <2> DEFINE h == step(at)
    <2>1. h = [i \in 0..n |-> h[i]]
      OBVIOUS
    <2> HIDE DEF h, n
    <2>2. at = h
      BY <1>7 DEF h
    <2> QED BY <2>1, <2>2
  <1>9. at[0] = c /\ \A i \in 1..n : at[i] = ReadStep(at[i - 1], line[i])
    <2>1. \A i \in 0..n : at[i] = IF i = 0 THEN c ELSE ReadStep(at[i - 1], line[i])
      <3> TAKE i \in 0..n
      <3>1. step(at)[i] = IF i = 0 THEN c ELSE ReadStep(at[i - 1], line[i])
        BY <1>3
      <3>2. step(at)[i] = at[i]
        <4> HIDE DEF step
        <4> QED BY <1>7
      <3> QED BY <3>1, <3>2
    <2> HIDE DEF n, c
    <2> QED BY <1>2, <2>1
  <1>10. \A i \in 0..n : at[i] \in S
    <2> DEFINE A == {i \in 0..n : at[i] \in S}
    <2>1. 0 \in A
      <3>1. 0 \in 0..n
        BY <1>2
      <3>2. c \in S
        BY DEF States, Quotes, NoQuote
      <3> HIDE DEF c, S
      <3> QED BY <1>9, <3>1, <3>2
    <2>2. ASSUME NEW i \in 1..n, i - 1 \in A
          PROVE  i \in A
      <3> HIDE DEF c, S
      <3>1. at[i - 1] \in S /\ at[i] = ReadStep(at[i - 1], line[i]) /\ i \in 0..n
        BY <1>2, <1>9, <2>2
      <3>2. at[i] \in S
        BY <1>2, <3>1, ReadStepType DEF S
      <3> QED BY <3>1, <3>2
    <2>3. \A i \in 0..n : i \in A
      <3> HIDE DEF A, n
      <3> QED BY <1>2, <2>1, <2>2, Climb
    <2> QED BY <2>3
  <1>11. at \in [0..n -> S]
    <2> HIDE DEF n, S
    <2> QED BY <1>8, <1>10
  <1> QED BY <1>1, <1>9, <1>11


\* On a plain line the quote scan and the shell's reader see the same quotes open, so a
\* line the code takes for one simple command has no operator that the shell acts on.
LEMMA QuotesAgree ==
  ASSUME NEW line \in Seq(STRING), Plain(line), isSingleSimpleCommand(line), NEW i \in DOMAIN line,
         Reader(line)[i].bare
  PROVE  line[i] \notin {"op", "newline"}
  <1> DEFINE n == Len(line)
             at == Reader(line)
  <1>1. n \in Nat /\ DOMAIN line = 1..n
    BY LenProperties
  <1>2. PICK open \in [0..n -> Quotes] :
            /\ open[0] = NoQuote
            /\ \A k \in 1..n : open[k] = ScanStep(open[k - 1], line[k])
            /\ \A k \in DOMAIN line : line[k] # "newline" /\ (line[k] = "op" => open[k] # NoQuote)
    BY ScanWalk
  <1>3. /\ at \in [0..n -> States]
        /\ at[0] = [open |-> NoQuote, esc |-> FALSE, bare |-> FALSE]
        /\ \A k \in 1..n : at[k] = ReadStep(at[k - 1], line[k])
    BY ReadWalk
  <1>4. \A k \in 2..n : line[k - 1] = "backslash" => line[k] \notin {"squote", "dquote"}
    BY DEF Plain
  <1> HIDE DEF n, at
  <1> DEFINE same(k) == /\ at[k].open = open[k]
                        /\ at[k].esc = TRUE => k >= 1 /\ line[k] = "backslash"
                        /\ at[k].bare = TRUE => at[k].open = NoQuote
             A == {k \in 0..n : same(k)}
  <1>5. 0 \in A
    <2>1. at[0].open = NoQuote /\ at[0].esc = FALSE /\ at[0].bare = FALSE
      BY <1>3
    <2> QED BY <1>1, <1>2, <2>1
  <1>6. ASSUME NEW k \in 1..n, k - 1 \in A
        PROVE  k \in A
    <2> DEFINE p == at[k - 1]
               u == line[k]
               q == at[k]
    <2>1. /\ k - 1 \in 0..n /\ k \in 0..n /\ p \in States
          /\ q = ReadStep(p, u) /\ open[k] = ScanStep(open[k - 1], u)
          /\ p.open = open[k - 1]
          /\ p.esc => u \notin {"squote", "dquote"}
      <3>0. same(k - 1)
        BY <1>6
      <3>1. k - 1 \in 0..n /\ k \in 0..n /\ p \in States /\ p.open = open[k - 1]
        BY <1>1, <1>3, <3>0
      <3>2. q = ReadStep(p, u) /\ open[k] = ScanStep(open[k - 1], u)
        BY <1>2, <1>3
      <3>3. p.esc => k \in 2..n /\ line[k - 1] = "backslash"
        <4>1. p.esc = TRUE => k - 1 >= 1 /\ line[k - 1] = "backslash"
          BY <3>0
        <4> QED BY <1>1, <3>1, <4>1 DEF States
      <3> QED BY <1>4, <3>1, <3>2, <3>3
    <2>2. u = "backslash" => u \notin {"squote", "dquote"}
      OBVIOUS
    <2> HIDE DEF p, u, q
    <2>3. /\ q.open = open[k]
          /\ q.esc = TRUE => u = "backslash"
          /\ q.bare = TRUE => q.open = NoQuote
      <3>1. CASE p.esc
        <4>1. q = [p EXCEPT !.esc = FALSE, !.bare = FALSE]
          BY <2>1, <3>1, ReadStepIs
        <4>2. q.open = p.open /\ q.esc = FALSE /\ q.bare = FALSE
          BY <2>1, <4>1 DEF States
        <4> QED BY <2>1, <3>1, <4>2 DEF ScanStep
      <3>2. CASE ~p.esc /\ u = "backslash" /\ p.open # "squote"
        <4>1. q = [p EXCEPT !.esc = TRUE, !.bare = FALSE]
          BY <2>1, <3>2, ReadStepIs
        <4>2. q.open = p.open /\ q.bare = FALSE
          BY <2>1, <4>1 DEF States
        <4> QED BY <2>1, <2>2, <3>2, <4>2 DEF ScanStep
      <3>3. CASE ~p.esc /\ u \in {"squote", "dquote"} /\ p.open \in {"", u}
        <4>1. q = [p EXCEPT !.open = IF p.open = "" THEN u ELSE "", !.bare = FALSE]
          BY <2>1, <3>3, ReadStepIs
        <4>2. q.open = (IF p.open = "" THEN u ELSE "") /\ q.esc = p.esc /\ q.bare = FALSE
          BY <2>1, <4>1 DEF States
        <4> QED BY <2>1, <3>3, <4>2 DEF ScanStep
      <3>4. CASE ~p.esc /\ ~(u = "backslash" /\ p.open # "squote")
                       /\ ~(u \in {"squote", "dquote"} /\ p.open \in {"", u})
        <4>1. q = [p EXCEPT !.bare = (p.open = "")]
          BY <2>1, <3>4, ReadStepIs
        <4>2. q.open = p.open /\ q.esc = p.esc /\ (q.bare <=> p.open = "")
          BY <2>1, <4>1 DEF States
        <4>3. open[k] = open[k - 1]
          BY <2>1, <3>4 DEF ScanStep
        <4> QED BY <2>1, <3>4, <4>2, <4>3 DEF NoQuote
      <3> QED BY <3>1, <3>2, <3>3, <3>4
    <2>4. same(k)
      BY <2>3 DEF q, u
    <2> HIDE DEF same
    <2> QED BY <2>1, <2>4
  <1>7. i \in A
    <2>1. \A k \in 0..n : k \in A
      <3> HIDE DEF A
      <3> QED BY <1>1, <1>5, <1>6, Climb
    <2>2. i \in 0..n
      BY <1>1
    <2> HIDE DEF A
    <2> QED BY <2>1, <2>2
  <1>8. same(i)
    BY <1>7
  <1>9. at[i].bare = TRUE
    BY <1>1, <1>3 DEF at, States
  <1> QED BY <1>2, <1>8, <1>9

-------------------------------------------------------------------------------
(* Fields and words of a line *)

\* Every unit that is not blank is in a field.
LEMMA FieldCovers ==
  ASSUME NEW line \in Seq(STRING), NEW i \in DOMAIN line, line[i] \notin Blank
  PROVE  \E f \in Fields(line) : f[1] <= i /\ i <= f[2]
  <1> DEFINE n == Len(line)
             B == {k \in 0..(i - 1) : k = 0 \/ line[k] \in Blank}
             E == {k \in i..n : k = n \/ line[k + 1] \in Blank}
  <1>1. n \in Nat /\ DOMAIN line = 1..n /\ i \in 1..n
    BY LenProperties
  <1> HIDE DEF n
  <1>2. PICK b \in B : \A k \in B : b >= k
    <2>1. B \in SUBSET (0..(i - 1)) /\ 0 \in B /\ i - 1 \in Nat
      BY <1>1
    <2> HIDE DEF B
    <2>2. B # {}
      BY <2>1
    <2> QED BY <2>1, <2>2, GreatestExists
  <1>3. PICK e \in E : \A k \in E : e <= k
    <2>1. E \in SUBSET Nat /\ n \in E
      BY <1>1
    <2> HIDE DEF E
    <2>2. E # {}
      BY <2>1
    <2> QED BY <2>1, <2>2, LeastExists
  <1>4. b \in 0..(i - 1) /\ (b = 0 \/ line[b] \in Blank) /\ e \in i..n /\ (e = n \/ line[e + 1] \in Blank)
    OBVIOUS
  <1>5. ASSUME NEW k \in (b + 1)..e
        PROVE  line[k] \notin Blank
    <2>1. CASE k < i
      <3>1. k \in 0..(i - 1) /\ k \notin B
        BY <1>1, <1>2, <1>4, <2>1
      <3> QED BY <3>1
    <2>2. CASE k = i
      BY <2>2
    <2>3. CASE k > i
      <3>1. k - 1 \in i..n /\ k - 1 \notin E /\ k - 1 + 1 = k
        BY <1>1, <1>3, <1>4, <2>3
      <3> QED BY <3>1
    <2> QED BY <1>1, <1>4, <2>1, <2>2, <2>3
  <1> DEFINE f == <<b + 1, e>>
  <1>6. /\ f[1] = b + 1 /\ f[2] = e /\ b + 1 \in DOMAIN line /\ e \in DOMAIN line
        /\ b + 1 <= e /\ b + 1 - 1 = b /\ (b + 1 = 1 \/ line[b] \in Blank)
    BY <1>1, <1>4
  <1>7. f \in Fields(line)
    BY <1>4, <1>5, <1>6 DEF Fields, n
  <1>8. f[1] <= i /\ i <= f[2]
    BY <1>1, <1>4, <1>6
  <1> HIDE DEF f
  <1> QED BY <1>7, <1>8

LEMMA TokenIs ==
  ASSUME NEW line \in Seq(STRING), NEW f \in Fields(line)
  PROVE  /\ f[1] \in DOMAIN line /\ f[2] \in DOMAIN line /\ f[1] <= f[2]
         /\ Token(line, f) \in Seq(STRING)
         /\ Len(Token(line, f)) = f[2] - f[1] + 1
         /\ \A j \in 1..(f[2] - f[1] + 1) : Token(line, f)[j] = line[f[1] + j - 1]
  <1>1. f[1] \in DOMAIN line /\ f[2] \in DOMAIN line /\ f[1] <= f[2]
    BY DEF Fields
  <1> DEFINE a == f[1]
             b == f[2]
  <1>2. a \in Int /\ b \in Int /\ a <= b /\ \A j \in a..b : line[j] \in STRING
    BY <1>1, LenProperties, ElementOfSeq
  <1>3. Token(line, f) = SubSeq(line, a, b)
    BY DEF Token
  <1> HIDE DEF a, b
  <1>4. /\ SubSeq(line, a, b) \in Seq(STRING)
        /\ Len(SubSeq(line, a, b)) = IF a <= b THEN b - a + 1 ELSE 0
        /\ \A j \in 1..(b - a + 1) : SubSeq(line, a, b)[j] = line[a + j - 1]
    BY <1>2, SubSeqProperties
  <1> QED BY <1>1, <1>2, <1>3, <1>4 DEF a, b

\* What it takes for the code to find "grep".
IsCommand(line, a) ==
    /\ a \in DOMAIN line /\ line[a] = "grep"
    /\ a = 1 \/ line[a - 1] \in Blank
    /\ a = Len(line) \/ line[a + 1] \in Blank
    /\ \A g \in Fields(line) :
         g[1] < a => \/ Contains(Token(line, g), "VAR=1") /\ ~Contains(Token(line, g), "./a=1")
                     \/ Token(line, g) = <<"sudo">>

LEMMA FirstCommandIs ==
  ASSUME NEW line \in Seq(STRING), Plain(line), firstCommandFromArgv(line) = <<"grep">>
  PROVE  \E a : IsCommand(line, a)
  <1> DEFINE real == RealTokens(line)
             least(f) == \A g \in real : f[1] <= g[1]
             c == CHOOSE f \in real : least(f)
  <1>1. firstCommandFromArgv(line) = IF real = {} THEN <<>> ELSE Token(line, c)
    BY Zenon DEF firstCommandFromArgv
  <1>2. real # {}
    BY <1>1
  <1>3. real \subseteq Fields(line)
    BY DEF RealTokens
  <1>4. \E f \in real : least(f)
    <2> DEFINE T == {f[1] : f \in real}
    <2>1. T \in SUBSET Nat /\ T # {}
      <3>1. \A f \in real : f[1] \in Nat
        BY <1>3, TokenIs, LenProperties
      <3> HIDE DEF real
      <3> QED BY <1>2, <3>1
    <2>2. PICK x \in T : \A y \in T : x <= y
      <3> HIDE DEF T
      <3> QED BY <2>1, LeastExists
    <2> HIDE DEF real
    <2> QED BY <2>2
  <1>5. c \in real /\ least(c)
    <2> HIDE DEF real, least
    <2> QED BY <1>4
  <1>6. Token(line, c) = <<"grep">>
    BY <1>1, <1>2
  <1> HIDE DEF c
  <1>7. c \in Fields(line)
    BY <1>3, <1>5
  <1> DEFINE a == c[1]
  <1>8. a \in DOMAIN line /\ c[2] = a /\ line[a] = "grep" /\ a \in Nat
    <2> DEFINE b == c[2]
    <2>1. /\ a \in DOMAIN line /\ b \in DOMAIN line
          /\ Len(Token(line, c)) = b - a + 1
          /\ \A j \in 1..(b - a + 1) : Token(line, c)[j] = line[a + j - 1]
      BY <1>7, TokenIs
    <2>2. Len(Token(line, c)) = 1 /\ Token(line, c)[1] = "grep"
      BY <1>6
    <2>3. a \in Nat /\ b \in Nat
      BY <2>1, LenProperties
    <2> HIDE DEF a, b
    <2>4. b = a /\ 1 \in 1..(b - a + 1) /\ a + 1 - 1 = a
      <3>1. b - a + 1 = 1
        BY <2>1, <2>2
      <3> QED BY <2>3, <3>1
    <2>5. line[a] = "grep"
      BY <2>1, <2>2, <2>4
    <2> QED BY <2>1, <2>3, <2>4, <2>5 DEF b
  <1>9. (a = 1 \/ line[a - 1] \in Blank) /\ (a = Len(line) \/ line[a + 1] \in Blank)
    BY <1>7, <1>8 DEF Fields
  <1>10. ASSUME NEW g \in Fields(line), g[1] < a
         PROVE  \/ Contains(Token(line, g), "VAR=1") /\ ~Contains(Token(line, g), "./a=1")
                \/ Token(line, g) = <<"sudo">>
    <2>1. \A h \in real : h[1] \in Nat /\ ~(h[1] < a)
      <3>1. \A h \in real : h[1] \in Nat
        BY <1>3, TokenIs, LenProperties
      <3> HIDE DEF real
      <3> QED BY <1>5, <1>8, <3>1
    <2>2. g[1] \in Nat
      BY TokenIs, LenProperties
    <2>3. g \notin real
      BY <1>10, <2>1
    <2>4. ~Contains(Token(line, g), "./a=1")
      <3> SUFFICES ASSUME Contains(Token(line, g), "./a=1") PROVE FALSE
        OBVIOUS
      <3>1. PICK h \in real : h[1] < g[1]
        BY DEF Plain
      <3>2. h[1] < a
        BY <1>8, <1>10, <2>1, <2>2, <3>1
      <3> QED BY <2>1, <3>2
    <2> QED BY <2>3, <2>4 DEF RealTokens
  <1> HIDE DEF a
  <1>11. IsCommand(line, a)
    BY <1>8, <1>9, <1>10 DEF IsCommand
  <1> QED BY <1>11

-------------------------------------------------------------------------------
(* The command the code finds is the one that decides *)

\* Nothing up to the command the code finds is quoted or escaped.
LEMMA CleanBefore ==
  ASSUME NEW line \in Seq(STRING), Plain(line), NEW a, IsCommand(line, a), NEW i \in 1..a
  PROVE  line[i] \notin {"squote", "dquote", "backslash"}
  <1>1. /\ a \in 1..Len(line) /\ Len(line) \in Nat /\ DOMAIN line = 1..Len(line)
        /\ i \in DOMAIN line
    BY LenProperties DEF IsCommand
  <1>2. CASE line[i] \in Blank
    BY <1>2 DEF Blank
  <1>3. CASE i = a
    BY <1>3 DEF IsCommand
  <1>4. CASE i # a /\ line[i] \notin Blank
    <2>1. PICK g \in Fields(line) : g[1] <= i /\ i <= g[2]
      BY <1>1, <1>4, FieldCovers
    <2>2. PICK t : t = Token(line, g)
      OBVIOUS
    <2>3. PICK b, e, j : b = g[1] /\ e = g[2] /\ j = i - b + 1
      OBVIOUS
    <2>4. /\ b \in 1..Len(line) /\ e \in 1..Len(line) /\ b <= i /\ i <= e
          /\ Len(t) = e - b + 1 /\ t \in Seq(STRING)
          /\ \A k \in 1..(e - b + 1) : t[k] = line[b + k - 1]
      BY <1>1, <2>1, <2>2, <2>3, TokenIs
    <2>5. j \in 1..Len(t) /\ b + j - 1 = i /\ b < a
      BY SMTT(30), <1>1, <1>4, <2>3, <2>4
    <2>6. t[j] = line[i] /\ line[i] \in ToSet(t)
      <3>1. t[j] = line[i]
        BY <2>4, <2>5
      <3>2. j \in DOMAIN t
        BY <2>4, <2>5, LenProperties
      <3> QED BY <3>1, <3>2 DEF ToSet
    <2>7. Contains(t, "VAR=1") \/ t = <<"sudo">>
      BY <2>1, <2>2, <2>3, <2>5 DEF IsCommand
    <2>8. CASE Contains(t, "VAR=1")
      <3>1. ToSet(t) \cap {"squote", "dquote", "backslash"} = {}
        BY <2>1, <2>2, <2>8 DEF Plain
      <3> QED BY <2>6, <3>1
    <2>9. CASE t = <<"sudo">>
      <3>1. Len(t) = 1 /\ t[1] = "sudo"
        BY <2>9
      <3>2. j = 1
        BY <2>5, <3>1
      <3> QED BY <2>6, <3>1, <3>2
    <2> QED BY <2>7, <2>8, <2>9
  <1> QED BY <1>2, <1>3, <1>4

\* Before the first quote or backslash the shell's reader takes every unit as it stands.
LEMMA BareBefore ==
  ASSUME NEW line \in Seq(STRING), NEW m \in 0..Len(line),
         \A i \in 1..m : line[i] \notin {"squote", "dquote", "backslash"}
  PROVE  \A i \in 1..m : Reader(line)[i].bare
  <1> DEFINE n == Len(line)
             at == Reader(line)
  <1>1. n \in Nat
    BY LenProperties
  <1>2. /\ at \in [0..n -> States]
        /\ at[0] = [open |-> NoQuote, esc |-> FALSE, bare |-> FALSE]
        /\ \A k \in 1..n : at[k] = ReadStep(at[k - 1], line[k])
    BY ReadWalk
  <1>3. m \in Nat /\ m <= n
    BY <1>1
  <1> HIDE DEF n, at
  <1> DEFINE fresh(k) == at[k].open = NoQuote /\ at[k].esc = FALSE /\ (k >= 1 => at[k].bare = TRUE)
             A == {k \in 0..m : fresh(k)}
  <1>4. 0 \in A
    <2>1. at[0].open = NoQuote /\ at[0].esc = FALSE
      BY <1>2
    <2> QED BY <1>3, <2>1
  <1>5. ASSUME NEW k \in 1..m, k - 1 \in A
        PROVE  k \in A
    <2> DEFINE p == at[k - 1]
               u == line[k]
               q == at[k]
    <2>1. /\ k \in 0..m /\ p \in States /\ q = ReadStep(p, u)
          /\ p.open = NoQuote /\ p.esc = FALSE
          /\ u \notin {"squote", "dquote", "backslash"}
      <3>0. fresh(k - 1)
        BY <1>5
      <3>1. k \in 0..m /\ k - 1 \in 0..n /\ k \in 1..n
        BY <1>1, <1>3
      <3>2. p \in States /\ q = ReadStep(p, u)
        BY <1>2, <3>1
      <3> QED BY <3>0, <3>1, <3>2
    <2> HIDE DEF p, u, q
    <2>2. q = [p EXCEPT !.bare = (p.open = "")]
      BY <2>1, ReadStepIs
    <2>3. q.open = p.open /\ q.esc = p.esc /\ (q.bare <=> p.open = "") /\ q.bare \in BOOLEAN
      BY <2>1, <2>2 DEF States
    <2>4. q.open = NoQuote /\ q.esc = FALSE /\ q.bare = TRUE
      BY <2>1, <2>3 DEF NoQuote
    <2>5. fresh(k)
      BY <2>4 DEF q
    <2> HIDE DEF fresh
    <2> QED BY <2>1, <2>5
  <1>6. \A k \in 0..m : k \in A
    <2> HIDE DEF A
    <2> QED BY <1>3, <1>4, <1>5, Climb
  <1>7. ASSUME NEW i \in 1..m
        PROVE  at[i].bare = TRUE
    <2>1. i \in 0..m /\ i >= 1
      BY <1>3
    <2>2. fresh(i)
      <3> HIDE DEF fresh
      <3> QED BY <1>6, <2>1
    <2> QED BY <2>1, <2>2
  <1> QED BY <1>7 DEF at

\* The units at which the shell ends a word, the units that start one, and where the word ends.
Gaps(line) == {i \in {k \in DOMAIN line : Reader(line)[k].bare} : line[i] \in Blank \cup {"op"}}
Starts(line) == {i \in (DOMAIN line) \ Gaps(line) : i = 1 \/ i - 1 \in Gaps(line)}
Finish(line, i) == Min({Len(line)} \cup {j - 1 : j \in {g \in Gaps(line) : g > i}})
Assigns(line, i) ==
    \E k \in i..Finish(line, i) :
        /\ line[k] = "VAR=1" /\ i..k \subseteq {x \in DOMAIN line : Reader(line)[x].bare}
        /\ \A x \in i..k : line[x] # "./a=1"
Ops(line) == {i \in {k \in DOMAIN line : Reader(line)[k].bare} : line[i] \in {"op", "newline"}}
Word(line, i) ==
    [first |-> i, units |-> SubSeq(line, i, Finish(line, i)),
     command |-> Cardinality({o \in Ops(line) : o < i}), assigns |-> Assigns(line, i)]

LEMMA ShellWords ==
  ASSUME NEW line
  PROVE  Shell(line).words = {Word(line, i) : i \in Starts(line)}
  <1> DEFINE at == Reader(line)
        bare == {i \in DOMAIN line : at[i].bare}
        ops == {i \in bare : line[i] \in {"op", "newline"}}
        gaps == {i \in bare : line[i] \in Blank \cup {"op"}}
        starts == {i \in (DOMAIN line) \ gaps : i = 1 \/ i - 1 \in gaps}
        finish(i) == Min({Len(line)} \cup {j - 1 : j \in {g \in gaps : g > i}})
        word(i) == [first |-> i,
                    units |-> SubSeq(line, i, finish(i)),
                    command |-> Cardinality({o \in ops : o < i}),
                    assigns |-> \E k \in i..finish(i) :
                                  /\ line[k] = "VAR=1" /\ i..k \subseteq bare
                                  /\ \A x \in i..k : line[x] # "./a=1"]
        W == {word(i) : i \in starts}
        wrong == \/ at[Len(line)].open # "" \/ at[Len(line)].esc
                   \/ \E o \in ops : line[o] = "op" /\ ~\E i \in starts :
                        i < o /\ \A n \in ops : n < o => n < i
  <1>1. Shell(line) = [words |-> W, wrong |-> wrong]
    BY Zenon DEF Shell
  <1>2. W = {Word(line, i) : i \in Starts(line)}
    BY Zenon DEF Word, Starts, Gaps, Ops, Finish, Assigns
  <1> HIDE DEF W, wrong
  <1> QED BY <1>1, <1>2

\* How far a word goes: to the end of the line, or to the unit before the next gap.
LEMMA FinishIs ==
  ASSUME NEW line \in Seq(STRING), NEW i \in DOMAIN line, NEW e, e = Finish(line, i)
  PROVE  /\ e \in i..Len(line)
         /\ e = Len(line) \/ e + 1 \in Gaps(line)
         /\ \A g \in Gaps(line) : g > i => e <= g - 1
  <1> DEFINE n == Len(line)
             T == {n} \cup {j - 1 : j \in {g \in Gaps(line) : g > i}}
  <1>1. n \in Nat /\ DOMAIN line = 1..n /\ Gaps(line) \subseteq 1..n /\ i \in 1..n
    BY LenProperties DEF Gaps
  <1>2. \A x \in T : x \in i..n /\ (x = n \/ x + 1 \in Gaps(line))
    <2> HIDE DEF n
    <2> QED BY <1>1
  <1>3. \A g \in Gaps(line) : g > i => g - 1 \in T
    OBVIOUS
  <1>4. T \in SUBSET Nat /\ n \in T
    <2>1. n \in T
      OBVIOUS
    <2> HIDE DEF T, n
    <2> QED BY <1>1, <1>2, <2>1
  <1>5. e = Min(T)
    BY DEF Finish
  <1> HIDE DEF T
  <1>6. e \in T /\ \A y \in T : e <= y
    BY <1>4, <1>5, MinIsLeast
  <1> QED BY <1>2, <1>3, <1>6

\* On a plain line that the code takes for a single "grep", a "grep" decides the exit.
LEMMA GrepDecides ==
  ASSUME NEW line \in Seq(STRING), Plain(line), isSingleSimpleCommand(line),
         firstCommandFromArgv(line) = <<"grep">>
  PROVE  Deciding(Shell(line)) = <<"grep">>
  <1>1. PICK a : IsCommand(line, a)
    BY FirstCommandIs
  <1> DEFINE n == Len(line)
             m == IF a = n THEN a ELSE a + 1
             gaps == Gaps(line)
  <1>0. n \in Nat /\ a \in Nat /\ 1 <= a /\ a <= n
    BY <1>1, LenProperties DEF IsCommand
  <1>2. /\ n = Len(line) /\ DOMAIN line = 1..n /\ a \in DOMAIN line /\ line[a] = "grep"
        /\ a = 1 \/ line[a - 1] \in Blank
        /\ a = n \/ line[a + 1] \in Blank
    BY <1>1, LenProperties DEF IsCommand
  <1> HIDE DEF n, gaps
  <1>3. m \in 0..n /\ a <= m /\ m \in Nat
    BY <1>0
  <1>4. \A i \in 1..m : i \in 1..n /\ Reader(line)[i].bare
    <2>1. \A i \in 1..m : line[i] \notin {"squote", "dquote", "backslash"}
      <3> TAKE i \in 1..m
      <3>1. CASE i \in 1..a
        BY <1>1, <3>1, CleanBefore
      <3>2. CASE i \notin 1..a
        <4>1. i = a + 1 /\ a # n
          BY <1>0, <3>2
        <4> QED BY <1>2, <4>1 DEF Blank
      <3> QED BY <3>1, <3>2
    <2> HIDE DEF m
    <2>2. \A i \in 1..m : Reader(line)[i].bare
      BY <1>2, <1>3, <2>1, BareBefore
    <2>3. \A i \in 1..m : i \in 1..n
      BY <1>0, <1>3
    <2> QED BY <2>2, <2>3
  <1> HIDE DEF m
  <1>5. \A i \in 1..m : line[i] \in Blank => i \in gaps
    BY <1>2, <1>4 DEF Gaps, gaps
  <1>6. \A i \in gaps : i \in 1..n /\ line[i] \in Blank
    <2> TAKE i \in gaps
    <2>1. i \in DOMAIN line /\ Reader(line)[i].bare /\ line[i] \in Blank \cup {"op"}
      BY DEF Gaps, gaps
    <2>2. line[i] # "op"
      BY <2>1, QuotesAgree
    <2> QED BY <1>2, <2>1, <2>2
  <1>7. Ops(line) = {}
    BY QuotesAgree DEF Ops
  <1>8. a \in Starts(line)
    <2>1. a \notin gaps
      BY <1>2, <1>6 DEF Blank
    <2>2. a = 1 \/ a - 1 \in gaps
      <3>1. a # 1 => a - 1 \in 1..m
        BY <1>0, <1>3
      <3> QED BY <1>2, <1>5, <3>1
    <2> QED BY <1>2, <2>1, <2>2 DEF Starts, gaps
  <1>9. Finish(line, a) = a
    <2>1. PICK e : e = Finish(line, a)
      OBVIOUS
    <2>2. e \in a..n /\ (\A g \in gaps : g > a => e <= g - 1)
      BY <1>2, <2>1, FinishIs DEF gaps
    <2>3. CASE a = n
      BY <1>0, <2>1, <2>2, <2>3
    <2>4. CASE a # n
      <3>1. a + 1 \in gaps /\ a + 1 > a
        <4>1. a + 1 \in 1..m /\ a + 1 > a
          BY <1>0, <2>4 DEF m
        <4> QED BY <1>2, <1>5, <2>4, <4>1
      <3>2. e <= a
        <4>1. PICK g : g = a + 1
          OBVIOUS
        <4>2. e <= g - 1
          BY <2>2, <3>1, <4>1
        <4> QED BY <1>0, <4>1, <4>2
      <3> QED BY <1>0, <2>1, <2>2, <3>2
    <2> QED BY <2>3, <2>4
  <1>10. SubSeq(line, a, a) = <<"grep">>
    <2>1. \A k \in a..a : line[k] \in STRING
      <3>1. line[a] \in STRING
        BY <1>2, ElementOfSeq
      <3>2. \A k \in a..a : k = a
        BY <1>0
      <3> QED BY <3>1, <3>2
    <2>2. PICK s : s = SubSeq(line, a, a)
      OBVIOUS
    <2>3. /\ s \in Seq(STRING) /\ Len(s) = a - a + 1
          /\ \A j \in 1..(a - a + 1) : s[j] = line[a + j - 1]
      <3>1. a \in Int /\ a <= a
        BY <1>0
      <3> QED BY <2>1, <2>2, <3>1, SubSeqProperties
    <2>4. Len(s) = 1 /\ s[1] = "grep"
      <3>1. a - a + 1 = 1 /\ a + 1 - 1 = a
        BY <1>0
      <3>2. s[1] = line[a + 1 - 1]
        BY <2>3, <3>1
      <3> QED BY <1>2, <2>3, <3>1, <3>2
    <2>5. s = <<s[1]>>
      <3>1. s[1] \in STRING
        <4>1. 1 \in 1..Len(s)
          BY <2>4
        <4> QED BY <2>3, <4>1, ElementOfSeq
      <3>2. PICK t : t = <<s[1]>>
        OBVIOUS
      <3>3. t \in Seq(STRING) /\ Len(t) = Len(s) /\ \A j \in 1..Len(s) : s[j] = t[j]
        <4>1. \A j \in 1..1 : j = 1
          OBVIOUS
        <4> QED BY <2>4, <3>1, <3>2, <4>1
      <3> QED BY <2>3, <3>2, <3>3, SeqEqual
    <2> QED BY <2>2, <2>4, <2>5
  <1>11. ~Assigns(line, a)
    <2>1. \A k \in a..a : k = a
      BY <1>0
    <2> QED BY <1>2, <1>9, <2>1 DEF Assigns
  <1>12. ASSUME NEW i \in Starts(line), i < a
         PROVE  Assigns(line, i) \/ SubSeq(line, i, Finish(line, i)) = <<"sudo">>
    <2>1. PICK e : e = Finish(line, i)
      OBVIOUS
    <2>2. i \in 1..n /\ i \notin gaps /\ (i = 1 \/ i - 1 \in gaps)
      BY <1>2 DEF Starts, gaps
    <2>3. /\ e \in i..n /\ (e = n \/ e + 1 \in gaps)
          /\ \A g \in gaps : g > i => e <= g - 1
      BY <1>2, <2>1, <2>2, FinishIs DEF gaps
    <2>4. a - 1 \in gaps /\ e <= a - 2 /\ e + 1 \in gaps
      <3>1. a # 1 /\ a - 1 \in 1..m
        BY <1>0, <1>3, <1>12, <2>2
      <3>2. a - 1 \in gaps
        BY <1>2, <1>5, <3>1
      <3>3. a - 1 > i
        <4>1. i # a - 1
          BY <2>2, <3>2
        <4> QED BY <1>0, <1>12, <2>2, <4>1
      <3>4. e <= a - 1 - 1
        BY <2>3, <3>2, <3>3
      <3>5. e # n /\ e <= a - 2
        BY <1>0, <2>2, <2>3, <3>4
      <3> QED BY <2>3, <3>2, <3>5
    <2>5. ASSUME NEW k \in i..e
          PROVE  line[k] \notin Blank
      <3>1. k \in 1..m
        BY <1>0, <1>3, <2>2, <2>3, <2>4
      <3>2. CASE k = i
        BY <1>5, <2>2, <3>1, <3>2
      <3>3. CASE k # i
        <4>1. k > i /\ ~(e <= k - 1)
          BY <1>0, <2>2, <2>3, <3>3
        <4> QED BY <1>5, <2>3, <3>1, <4>1
      <3> QED BY <3>2, <3>3
    <2> DEFINE f == <<i, e>>
    <2>6. f \in Fields(line) /\ f[1] = i /\ f[2] = e
      <3>1. f[1] = i /\ f[2] = e /\ i \in DOMAIN line /\ e \in DOMAIN line /\ i <= e
        BY <1>0, <1>2, <2>2, <2>3
      <3>2. (i = 1 \/ line[i - 1] \in Blank) /\ line[e + 1] \in Blank
        BY <1>6, <2>2, <2>4
      <3> QED BY <2>5, <3>1, <3>2 DEF Fields
    <2> HIDE DEF f
    <2>7. \/ Contains(Token(line, f), "VAR=1") /\ ~Contains(Token(line, f), "./a=1")
          \/ Token(line, f) = <<"sudo">>
      BY <1>1, <1>12, <2>6 DEF IsCommand
    <2>8. Token(line, f) = SubSeq(line, i, e)
      BY <2>6 DEF Token
    <2>9. CASE Contains(Token(line, f), "VAR=1") /\ ~Contains(Token(line, f), "./a=1")
      <3>1. PICK j \in 1..Len(Token(line, f)) : Token(line, f)[j] = "VAR=1"
        BY <2>9 DEF Contains
      <3>2. /\ Len(Token(line, f)) = e - i + 1
            /\ \A k \in 1..(e - i + 1) : Token(line, f)[k] = line[i + k - 1]
        BY <2>6, TokenIs
      <3>3. PICK k : k = i + j - 1
        OBVIOUS
      <3>4. line[k] = "VAR=1"
        BY <3>1, <3>2, <3>3
      <3>5. k \in i..e /\ k <= a
        <4>1. j \in 1..(e - i + 1)
          BY <3>1, <3>2
        <4> QED BY <1>0, <2>2, <2>3, <2>4, <3>3, <4>1
      <3>6. ASSUME NEW x \in i..k
            PROVE  x \in DOMAIN line /\ Reader(line)[x].bare
        <4>1. x \in 1..m /\ x \in 1..n
          BY <1>0, <1>3, <2>2, <3>5
        <4> QED BY <1>2, <1>4, <4>1
      <3>7. i..k \subseteq {x \in DOMAIN line : Reader(line)[x].bare}
        BY <3>6
      <3>8. ASSUME NEW x \in i..k
            PROVE  line[x] # "./a=1"
        <4>1. PICK y : y = x - i + 1
          OBVIOUS
        <4>2. y \in 1..(e - i + 1) /\ i + y - 1 = x
          BY <1>0, <2>2, <2>3, <3>5, <4>1
        <4>3. y \in 1..Len(Token(line, f)) /\ Token(line, f)[y] = line[x]
          BY <3>2, <4>2
        <4> QED BY <2>9, <4>3 DEF Contains
      <3> QED BY <2>1, <3>4, <3>5, <3>7, <3>8 DEF Assigns
    <2> QED BY <2>1, <2>7, <2>8, <2>9
  <1> DEFINE sh == Shell(line)
             real == {w \in LastCommand(sh) : ~w.assigns /\ w.units # <<"sudo">>}
             least(w) == \A v \in real : w.first <= v.first
             c == CHOOSE w \in real : least(w)
  <1>13. sh.words = {Word(line, i) : i \in Starts(line)}
    BY ShellWords
  <1>14. ASSUME NEW i
         PROVE  /\ Word(line, i).first = i
                /\ Word(line, i).units = SubSeq(line, i, Finish(line, i))
                /\ Word(line, i).command = 0
                /\ Word(line, i).assigns <=> Assigns(line, i)
    <2>1. {o \in Ops(line) : o < i} = {}
      BY <1>7
    <2>2. Word(line, i).command = Cardinality({o \in Ops(line) : o < i})
      BY DEF Word
    <2>3. Word(line, i).command = 0
      BY <2>1, <2>2, FS_EmptySet
    <2>4. Word(line, i).assigns <=> Assigns(line, i)
      BY DEF Word
    <2> QED BY <2>3, <2>4 DEF Word
  <1>15. LastCommand(sh) = sh.words
    <2> HIDE DEF sh
    <2>1. \A w \in sh.words : w.command = 0
      BY <1>13, <1>14
    <2> QED BY <2>1 DEF LastCommand
  <1>16. Word(line, a) \in real
    <2> HIDE DEF sh
    <2>1. Word(line, a) \in LastCommand(sh)
      BY <1>8, <1>13, <1>15
    <2>2. Word(line, a).units = <<"grep">> /\ ~Word(line, a).assigns
      BY <1>9, <1>10, <1>11, <1>14
    <2>3. <<"grep">> # <<"sudo">>
      OBVIOUS
    <2> QED BY <2>1, <2>2, <2>3
  <1>17. ASSUME NEW w \in real
         PROVE  w.first \in Nat /\ a <= w.first /\ (w.first = a => w.units = <<"grep">>)
    <2> HIDE DEF sh
    <2>1. w \in sh.words /\ ~w.assigns /\ w.units # <<"sudo">>
      BY <1>15
    <2>2. PICK i \in Starts(line) : w = Word(line, i)
      BY <1>13, <2>1
    <2>3. w.first = i /\ ~Assigns(line, i) /\ SubSeq(line, i, Finish(line, i)) # <<"sudo">>
      BY <1>14, <2>1, <2>2
    <2>4. i \in Nat /\ ~(i < a)
      <3>1. i \in Nat
        BY <1>0, <1>2 DEF Starts
      <3> QED BY <1>12, <2>3, <3>1
    <2>5. i = a => w.units = <<"grep">>
      BY <1>9, <1>10, <1>14, <2>2
    <2> QED BY <1>0, <2>3, <2>4, <2>5
  <1> HIDE DEF sh
  <1>18. Deciding(sh) = IF real = {} THEN <<>> ELSE c.units
    BY Zenon DEF Deciding
  <1> HIDE DEF real
  <1>19. Word(line, a).first = a
    BY <1>14
  <1>20. \E w \in real : least(w)
    BY <1>16, <1>17, <1>19
  <1>21. c \in real /\ least(c)
    <2> HIDE DEF least
    <2> QED BY <1>20
  <1> HIDE DEF c
  <1>22. c.first <= a
    BY <1>16, <1>19, <1>21
  <1>23. c.units = <<"grep">>
    <2>1. c.first = a
      BY <1>0, <1>17, <1>21, <1>22
    <2> QED BY <1>17, <1>21, <2>1
  <1> QED BY <1>16, <1>18, <1>23 DEF sh

\* A failure is never relayed as a success: on a plain line, whatever its length, its quotes
\* and its operators, a nonzero exit that the caller does not see as an error was the exit
\* of a program of the table, below the threshold.
THEOREM ErrorsStayVisibleHolds == Spec => []ErrorsStayVisible
  <1>1. ReqInv /\ ResultInv => ErrorsStayVisible
    <2> SUFFICES ASSUME ReqInv, ResultInv, Masked, Plain(call.argv)
                 PROVE  FALSE
      BY DEF ErrorsStayVisible
    <2>1. /\ result # None /\ result.kind = "text" /\ call.exit # 0 /\ ~result.isError
          /\ Deciding(Shell(call.argv)) # <<"grep">>
      BY DEF Masked
    <2>2. IsReply(call) /\ result = TextResult(call)
      BY <2>1, ResultSource
    <2>3. Benign(call.argv, call.exit)
      BY <2>1, <2>2, TextShape
    <2>4. /\ call.argv \in Seq(STRING) /\ firstCommandFromArgv(call.argv) = <<"grep">>
          /\ isSingleSimpleCommand(call.argv)
      BY <2>2, <2>3 DEF Benign, IsReply
    <2> QED BY <2>1, <2>4, GrepDecides
  <1> QED BY <1>1, ResultInvariant, PTL

===============================================================================
