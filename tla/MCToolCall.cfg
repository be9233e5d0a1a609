\* Every line of up to five units, every reply over eight streams, every edit of texts
\* of up to four letters.
SPECIFICATION Spec
CONSTANTS
    Units = {"grep", "false", "VAR=1", "sudo", " ", "op", "newline", "squote", "dquote", "backslash"}
    MaxLine = 5
    Cases <- MCCases
    NotShell = NotShell
    MaxContent = 3
    None = None
    FileCalls <- MCFileCalls
    Files <- MCFiles
    NoReply = NoReply
INVARIANTS ErrorsStayVisible NeverSilent TruncationAnnounced WholeRunes FileAsAsked PictureShown
CHECK_DEADLOCK FALSE
